---- MODULE Spec2Model ----
(***************************************************************************)
(* Model of the stor frontend (package front): the upload / download       *)
(* orchestrator (Handler), the metadata store (YDBStorage), the storage     *)
(* nodes seen through NodeClient, and the placement function.               *)
(***************************************************************************)
EXTENDS Integers, Sequences, FiniteSets, TLC

\* ------------------------------------------------------------------------
\* Bounds of the model.
\* ------------------------------------------------------------------------
\* h.chunksPerFile.  NewHandler sets 6; the handler is parametric in it and
\* the state machine is explored at this reduced value.  The placement and
\* the split are explored up to MaxSelN chunks (which covers 6).
chunksPerFile == 3
\* node base URLs are 1..MaxNodes
MaxNodes == 2
\* longest list of node statistics handed to selectLeastFilledNodes
MaxStatNodes == 3
\* largest TotalSize of a NodeStat handed to selectLeastFilledNodes
MaxTotalSize == 2
\* largest n handed to selectLeastFilledNodes
MaxSelN == 6

\* largest file size handed to the split harness
MaxSplitSize == 20
\* file names are 1..MaxNames
MaxNames == 1
\* upload requests are 1..MaxUploads, download requests 1..MaxDownloads
MaxUploads == 1
MaxDownloads == 1
\* number of failures the environment injects in one behaviour (a client
\* that goes away is one), not counting the failures of tasks whose context
\* is already cancelled and the failures of the calls made by cleanup
MaxFaults == 1
\* length of the buffer handed to LimitReaderFrom.Read
ReadBuf == 2
\* the reader harness: the source has up to MaxSrcLen bytes, and the
\* consumer goes on reading until MaxEofReads reads reported end-of-stream
MaxSrcLen == 5
MaxEofReads == 2
\* the node harness: MaxNodeChunks chunk identifiers that share their two
\* directories, one more in another directory, and chunks of up to
\* MaxChunkLen bytes
MaxNodeChunks == 2
MaxChunkLen == 2
\* the store harness: file names are 1..MaxStoreNames, and for each name
\* there is one File of n chunks for every n in 1..MaxStoreChunks
MaxStoreNames == 2
MaxStoreChunks == 2

\* the calls of FetchNodes, UpdateNodeStats and GetClient in flight
MaxMuxProcs == 2

\* the longest source the Write tasks of an upload read concurrently
MaxSendLen == 8

URLs == 1..MaxNodes
FileNames == 1..MaxNames
UploadIds == 1..MaxUploads
DownloadIds == 1..MaxDownloads
\* sizes of the uploaded files: fewer bytes than chunks, and a size that
\* leaves a remainder for the last chunk
UploadSizes == {chunksPerFile - 1, 2 * chunksPerFile + 1}
\* the bytes of the file uploaded by request u: pairwise distinct, and
\* distinct between requests
Data(u, size) == [j \in 1..size |-> 16 * u + j]

\* ------------------------------------------------------------------------
\* Generic helpers.
\* ------------------------------------------------------------------------
Range(s) == {s[i] : i \in DOMAIN s}

\* all orderings of a finite set, as sequences without repetition
Perms(S) ==
  {s \in [1..Cardinality(S) -> S] : \A i, j \in 1..Cardinality(S) : i # j => s[i] # s[j]}

Min(a, b) == IF a < b THEN a ELSE b

\* ------------------------------------------------------------------------
\* Placement: Handler.selectLeastFilledNodes.
\* ------------------------------------------------------------------------
\* the comparison function handed to slices.SortFunc, reversed
CmpTotalSizeReversed(a, b) == b.TotalSize - a.TotalSize

\* the comparison function handed to slices.SortFunc
CmpTotalSize(a, b) == a.TotalSize - b.TotalSize

\* slices.SortFunc is not stable: every ordering of the list that the
\* comparison function accepts as sorted is a possible result.
SortedPerms(nodes) ==
  {s \in Perms(Range(nodes)) :
     \A i, j \in 1..Len(s) : i < j => CmpTotalSize(s[i], s[j]) <= 0}

\* what the doc comment announces for too few nodes: "return all nodes"
SelectFromSortedAll(sorted, n) ==
  IF n < Len(sorted) THEN SubSeq(sorted, 1, n) ELSE sorted

\* the part of selectLeastFilledNodes after the sort: the first n nodes, or
\* the nodes repeated cyclically until n entries are collected
SelectFromSorted(sorted, n) ==
  IF n < Len(sorted)
    THEN SubSeq(sorted, 1, n)
    ELSE [i \in 1..n |-> sorted[((i - 1) % Len(sorted)) + 1]]

\* the possible results of selectLeastFilledNodes(nodes, n); <<>> is nil
selectLeastFilledNodes(nodes, n) ==
  IF Len(nodes) = 0
    THEN {<<>>}
    ELSE {SelectFromSorted(s, n) : s \in SortedPerms(nodes)}

\* ------------------------------------------------------------------------
\* LimitReaderFrom.
\* ------------------------------------------------------------------------
\* the bytes a consumer collects by calling LimitReaderFrom{R, N, Offset}.Read
\* with buffers of ReadBuf bytes until it reports an error (io.EOF included)
RECURSIVE LimitReadAll(_, _, _)
LimitReadAll(R, N, Offset) ==
  IF N <= 0
    THEN <<>>
    ELSE LET len == Min(ReadBuf, N)
             left == IF Len(R) > Offset THEN Len(R) - Offset ELSE 0
             n == Min(len, left)
             got == SubSeq(R, Offset + 1, Offset + n)
         IN  IF n < len
               THEN got   \* ReadAt reports io.EOF with the short read
               ELSE got \o LimitReadAll(R, N - n, Offset + n)

\* io.ReaderAt.ReadAt(p, off) on the source R, with len = len(p): the bytes
\* read and the error.  A short read reports io.EOF; a read that ends at the
\* end of the source reports io.EOF or nil, as the source chooses (eofAtEnd)
ReadAt(R, len, off, eofAtEnd) ==
  LET left == IF Len(R) > off THEN Len(R) - off ELSE 0
      n == Min(len, left)
  IN  [data |-> SubSeq(R, off + 1, off + n),
       err |-> IF n < len \/ (eofAtEnd /\ off + n = Len(R)) THEN "EOF" ELSE ""]

\* a Read that does not limit its buffer to the remaining N bytes
LimitReadNoLimit(l, plen, eofAtEnd) ==
  IF l.N <= 0
    THEN [data |-> <<>>, err |-> "EOF", l |-> l]
    ELSE LET r == ReadAt(l.R, plen, l.Offset, eofAtEnd)
         IN  [data |-> r.data, err |-> r.err,
              l |-> [l EXCEPT !.Offset = @ + Len(r.data), !.N = @ - Len(r.data)]]

\* one call of LimitReaderFrom.Read on the reader l = {R, N, Offset} with a
\* buffer of plen bytes: the bytes read, the error, and the reader after it
LimitRead(l, plen, eofAtEnd) ==
  IF l.N <= 0
    THEN [data |-> <<>>, err |-> "EOF", l |-> l]
    ELSE LET len == Min(plen, l.N)
             r == ReadAt(l.R, len, l.Offset, eofAtEnd)
         IN  [data |-> r.data, err |-> r.err,
              l |-> [l EXCEPT !.Offset = @ + Len(r.data), !.N = @ - Len(r.data)]]

\* ------------------------------------------------------------------------
\* Handler.upload: the split of a file into chunks.
\* ------------------------------------------------------------------------
\* a split that counts the chunks from 1 when it computes the offsets
SplitChunksOffByOne(size, n) ==
  LET chunkSize == size \div n
  IN  [i \in 1..n |->
         [Index |-> i - 1,
          Offset |-> i * chunkSize,
          Size |-> IF i = n THEN size - i * chunkSize ELSE chunkSize]]

\* a split that forgets the remainder of the last chunk
SplitChunksNoRemainder(size, n) ==
  LET chunkSize == size \div n
  IN  [i \in 1..n |->
         [Index |-> i - 1, Offset |-> (i - 1) * chunkSize, Size |-> chunkSize]]

\* index, offset and size of the n chunks of a file of the given size
SplitChunks(size, n) ==
  LET chunkSize == size \div n
  IN  [i \in 1..n |->
         [Index |-> i - 1,
          Offset |-> (i - 1) * chunkSize,
          Size |-> IF i = n THEN size - (i - 1) * chunkSize ELSE chunkSize]]

\* chunk descriptors whose identifiers repeat from one upload to the next
BuildChunksSameIds(u, size, cl, n) ==
  LET sp == SplitChunks(size, n)
  IN  [i \in 1..n |->
         [Index |-> sp[i].Index,
          ID |-> <<0, i - 1>>,
          Offset |-> sp[i].Offset,
          Size |-> sp[i].Size,
          NodeBaseURL |-> cl[i].baseURL]]

\* the chunks of upload request u for n chunks per file: the split, a fresh
\* identifier per chunk and the base URL of the client placement chose
BuildChunks(u, size, cl, n) ==
  LET sp == SplitChunks(size, n)
  IN  [i \in 1..n |->
         [Index |-> sp[i].Index,
          ID |-> <<u, i - 1>>,
          Offset |-> sp[i].Offset,
          Size |-> sp[i].Size,
          NodeBaseURL |-> cl[i].baseURL]]

\* the File value the AddFile task of an upload hands to the store
UploadFile(name, data, chunks) ==
  [Size |-> Len(data), Name |-> name, Chunks |-> chunks]

\* ------------------------------------------------------------------------
\* YDBStorage: the metadata store as relations.
\*   files     : name -> size                      (table files)
\*   chunkRows : rows (file, index, id, offset, size, node) (table chunks)
\*   nodes     : base URLs                            (table nodes)
\* ------------------------------------------------------------------------
\* an update of the file row that adds the size to the size already stored
UpsertFileAccumulate(fs, name, size) ==
  [n \in (DOMAIN fs) \cup {name} |->
     IF n = name THEN (IF n \in DOMAIN fs THEN fs[n] + size ELSE size)
     ELSE fs[n]]

\* UPSERT INTO files
UpsertFile(fs, name, size) ==
  [n \in (DOMAIN fs) \cup {name} |-> IF n = name THEN size ELSE fs[n]]

\* an insertion that leaves the rows already stored for the file in place
UpsertChunksKeepOld(rows, name, chunks) ==
  rows
  \cup {[file |-> name, index |-> chunks[i].Index, id |-> chunks[i].ID,
         offset |-> chunks[i].Offset, size |-> chunks[i].Size,
         node |-> chunks[i].NodeBaseURL] : i \in DOMAIN chunks}

\* UPSERT INTO chunks, one statement per chunk of the file
UpsertChunks(rows, name, chunks) ==
  {r \in rows : ~(r.file = name /\ \E i \in DOMAIN chunks : chunks[i].Index = r.index)}
  \cup {[file |-> name, index |-> chunks[i].Index, id |-> chunks[i].ID,
         offset |-> chunks[i].Offset, size |-> chunks[i].Size,
         node |-> chunks[i].NodeBaseURL] : i \in DOMAIN chunks}

\* AddFile: the upserts of one transaction, on tables files and chunks
AddFileFiles(fs, file) == UpsertFile(fs, file.Name, file.Size)

AddFileChunks(rows, file) == UpsertChunks(rows, file.Name, file.Chunks)

\* DELETE FROM files WHERE name = $fileName
DeleteFileRow(fs, name) == [n \in (DOMAIN fs) \ {name} |-> fs[n]]

\* a RemoveFile that leaves the chunk rows in place
DeleteChunkRowsNone(rows, name) == rows

\* DELETE FROM chunks WHERE file = $fileName
DeleteChunkRows(rows, name) == {r \in rows : r.file # name}

\* the Chunk value File builds from one row of the chunk query
RowChunk(r) ==
  [Index |-> r.index, ID |-> r.id, Offset |-> r.offset, Size |-> r.size,
   NodeBaseURL |-> r.node]

\* the possible chunk lists of File(name): the chunk query has no ORDER BY,
\* and File appends the rows in the order the query returns them
FileChunks(rows, name) ==
  {[i \in DOMAIN p |-> RowChunk(p[i])] : p \in Perms({r \in rows : r.file = name})}

\* the possible results of File(name) when both of its queries see the
\* same store: FileNotFoundErr, ChunksNotFound, or the file with its chunks
FileResult(fs, rows, name) ==
  IF name \notin DOMAIN fs
    THEN {[err |-> "file not found", file |-> <<>>]}
    ELSE IF {r \in rows : r.file = name} = {}
      THEN {[err |-> "chunks not found", file |-> <<>>]}
      ELSE {[err |-> "",
             file |-> [Size |-> fs[name], Name |-> name, Chunks |-> ch]] :
              ch \in FileChunks(rows, name)}

\* UPSERT INTO nodes
UpsertNode(ns, b) == ns \cup {b}

\* statistics for every configured base URL, registered or not
StatsOfAllURLs(ns, rows) ==
  {[BaseURL |-> b,
    TotalChunks |-> Cardinality({r \in rows : r.node = b}),
    TotalSize |-> 0] : b \in URLs}

\* only what the aggregate query over the chunk rows returns
StatsOfChunkRowsOnly(ns, rows) ==
  LET RECURSIVE SumSize(_)
      SumSize(S) ==
        IF S = {} THEN 0
        ELSE LET r == CHOOSE x \in S : TRUE IN r.size + SumSize(S \ {r})
  IN  {[BaseURL |-> b,
        TotalChunks |-> Cardinality({r \in rows : r.node = b}),
        TotalSize |-> SumSize({r \in rows : r.node = b})] :
         b \in {r.node : r \in rows}}

\* the statistics NodeStats collects in its map: a zero entry per registered
\* node, overwritten by the aggregate of the chunk rows of each node
StatsOf(ns, rows) ==
  LET RECURSIVE SumSize(_)
      SumSize(S) ==
        IF S = {} THEN 0
        ELSE LET r == CHOOSE x \in S : TRUE IN r.size + SumSize(S \ {r})
      hosts == ns \cup {r.node : r \in rows}
  IN  {[BaseURL |-> b,
        TotalChunks |-> Cardinality({r \in rows : r.node = b}),
        TotalSize |-> SumSize({r \in rows : r.node = b})] : b \in hosts}

\* the possible results of NodeStats: the map's entries in some order, then
\* sorted (not stably) by total size
NodeStats(ns, rows) ==
  LET st == StatsOf(ns, rows)
  IN  {s \in Perms(st) :
         \A i, j \in 1..Len(s) : i < j => CmpTotalSize(s[i], s[j]) <= 0}

\* NodeClientConstructor.NewClient: a handle to the node at baseURL
NewClient(baseURL) == [baseURL |-> baseURL]

\* a FetchNodes that drops the entries of the nodes not listed
FetchedClientsOnly(cl, ns) == [b \in ns |-> NewClient(b)]

\* a FetchNodes that leaves the registry as it is
FetchedClientsNone(cl, ns) == cl

\* the registry after FetchNodes stored a client for every listed node
FetchedClients(cl, ns) ==
  [b \in (DOMAIN cl) \cup ns |-> IF b \in ns THEN NewClient(b) ELSE cl[b]]

\* the registry after GetClient(baseURL) for every base URL of bs
WithClients(cl, bs) ==
  [b \in (DOMAIN cl) \cup bs |-> IF b \in DOMAIN cl THEN cl[b] ELSE NewClient(b)]

\* ------------------------------------------------------------------------
\* State.
\* ------------------------------------------------------------------------
VARIABLES
  nodes,     \* YDBStorage: table nodes
  files,     \* YDBStorage: table files
  chunkRows, \* YDBStorage: table chunks
  clients,   \* Handler.clients
  blobs,     \* the chunks held by the storage nodes: <<node, id>> -> bytes
  upl,       \* the upload requests
  dl,        \* the download requests
  faults,    \* number of failures injected so far
  regReq,    \* the last registration request, with its response
  hStat,     \* Handler.stat: the node statistics UpdateNodeStats stored last
  fnIn,      \* function harness: the arguments of the call
  fnOut,     \* function harness: the result of the call
  fnPc       \* function harness: "idle", "call" (before) or "ret" (after)

selVars == <<fnIn, fnOut, fnPc>>
storeVars == <<nodes, files, chunkRows>>
sysVars == <<nodes, files, chunkRows, clients, blobs, upl, dl, faults, regReq, hStat>>
vars == <<nodes, files, chunkRows, clients, blobs, upl, dl, faults, regReq,
          hStat, fnIn, fnOut, fnPc>>

\* lists of node statistics with pairwise distinct base URLs, as NodeStats
\* builds them from a map keyed by base URL
NodeStatLists ==
  UNION {
    {s \in [1..k -> [BaseURL : 1..MaxStatNodes, TotalChunks : {0}, TotalSize : 0..MaxTotalSize]] :
       \A i, j \in 1..k : i # j => s[i].BaseURL # s[j].BaseURL}
    : k \in 0..MaxStatNodes}

SelIdle == fnIn = <<>> /\ fnOut = <<>> /\ fnPc = "idle"

\* ------------------------------------------------------------------------
\* The frontend: state after NewHandler, with an empty store and no nodes.
\* ------------------------------------------------------------------------
\* cancelled: the context of the request is cancelled (the client went
\* away); cleanupCtx: the context cleanup issues its calls under
NoUpload ==
  [pc |-> "idle", name |-> 0, data |-> <<>>, chunks |-> <<>>, task |-> <<>>,
   err |-> "", k |-> 0, status |-> 0, resp |-> "", deletes |-> <<>>,
   removed |-> "none", otherAdd |-> FALSE, cancelled |-> FALSE,
   cleanupCtx |-> ""]

\* no registration request yet.  ok: the base URLs registered with success
\* so far; again: url was one of them before the request; the contents of
\* table nodes and the keys of Handler.clients before and after the request
NoRegister ==
  [url |-> 0, status |-> 0, err |-> "", again |-> FALSE, ok |-> {},
   nodesBefore |-> {}, keysBefore |-> {}, nodesAfter |-> {}, keysAfter |-> {}]

NoDownload ==
  [pc |-> "idle", name |-> 0, size |-> 0, chunks |-> <<>>, k |-> 0,
   body |-> <<>>, reads |-> <<>>, status |-> 0, failed |-> FALSE,
   after |-> {}]

InitSys ==
  /\ nodes = {}
  /\ files = <<>>
  /\ chunkRows = {}
  /\ clients = <<>>
  /\ blobs = <<>>
  /\ upl = [u \in UploadIds |-> NoUpload]
  /\ dl = [d \in DownloadIds |-> NoDownload]
  /\ faults = 0
  /\ regReq = NoRegister
  /\ hStat = <<>>

Init == InitSys /\ SelIdle

CanFail == faults < MaxFaults

\* a group that keeps the last error its tasks return
LastErr(old, new) == new

\* errgroup: the group keeps the first error its tasks return
FirstErr(old, new) == IF old = "" THEN new ELSE old

\* the contexts of an upload up: "request" is r.Context(), cancelled when
\* the client goes away; "group" is the context errgroup.WithContext derives
\* from it, cancelled as well the first time a task returns an error;
\* "base" is h.baseCtx, which lives as long as the server
Cancelled(up, ctx) ==
  CASE ctx = "request" -> up.cancelled
    [] ctx = "group" -> up.cancelled \/ up.err # ""
    [] OTHER -> FALSE

\* a cleanup that goes on under the context of the group
CleanupCtxGroup == "group"

\* the context cleanup starts its span from: h.baseCtx
CleanupCtx == "base"

SomeTaskFailed(task) == \E i \in DOMAIN task : task[i] = "err"

\* a Wait that returns as soon as one task has failed
FirstTaskReturned(task) ==
  SomeTaskFailed(task) \/ \A i \in DOMAIN task : task[i] # "run"

\* a Wait that waits for the chunk Writes only
WriteTasksReturned(task) ==
  \A i \in DOMAIN task : i <= chunksPerFile => task[i] # "run"

\* a Wait that returns as soon as one task has returned
AnyTaskReturned(task) == \E i \in DOMAIN task : task[i] # "run"

\* g.Wait returns once every task of the group has returned
AllTasksReturned(task) == \A i \in DOMAIN task : task[i] # "run"

\* a chunk store that names the file of a chunk after its directories only
ChunkPathDirOnly(node, id) == <<node, id[1], id[2]>>

\* the file of chunk id in the directory of a node: two directories named
\* after the leading characters of the identifier, then the identifier
ChunkPath(node, id) == <<node, id[1], id[2], id>>

\* a Write that reports success and stores nothing
PutBlobNowhere(bl, node, id, data) == bl

\* the chunk store of a node after Write(id, data) / Delete(id)
PutBlob(bl, node, id, data) ==
  [key \in (DOMAIN bl) \cup {ChunkPath(node, id)} |->
     IF key = ChunkPath(node, id) THEN data ELSE bl[key]]

DropBlob(bl, node, id) ==
  [key \in (DOMAIN bl) \ {ChunkPath(node, id)} |-> bl[key]]

\* Chunks.Read(id, w): the error and the bytes written to w
ChunksRead(bl, node, id) ==
  IF ChunkPath(node, id) \in DOMAIN bl
    THEN [err |-> "", sink |-> bl[ChunkPath(node, id)]]
    ELSE [err |-> "open", sink |-> <<>>]

\* os.Remove of the file of chunk id
RemoveErr(bl, node, id) ==
  IF ChunkPath(node, id) \in DOMAIN bl THEN "" ELSE "not exist"

\* a Delete that reports the error of os.Remove as it is
DeleteErrAsIs(bl, node, id) == RemoveErr(bl, node, id)

\* the error Chunks.Delete(id) returns: os.IsNotExist is not an error
DeleteErr(bl, node, id) ==
  IF RemoveErr(bl, node, id) = "not exist" THEN "" ELSE RemoveErr(bl, node, id)

\* ---- Handler.register -----------------------------------------------
\* the record of the registration of b answered with the given status,
\* which left ns in table nodes and cl in Handler.clients
Registered(b, status, err, ns, cl) ==
  [url |-> b, status |-> status, err |-> err,
   again |-> b \in regReq.ok,
   ok |-> IF status = 200 THEN regReq.ok \cup {b} ELSE regReq.ok,
   nodesBefore |-> nodes, keysBefore |-> DOMAIN clients,
   nodesAfter |-> ns, keysAfter |-> DOMAIN cl]

Register(b) ==
  /\ nodes' = nodes \cup {b}
  /\ clients' = FetchedClients(clients, nodes')
  /\ regReq' = Registered(b, 200, "", nodes', clients')
  /\ UNCHANGED <<files, chunkRows, blobs, upl, dl, faults, hStat, selVars>>

\* AddNode fails: 500, nothing registered
RegisterAddNodeFails(b) ==
  /\ CanFail
  /\ faults' = faults + 1
  /\ regReq' = Registered(b, 500, "upsert node", nodes, clients)
  /\ UNCHANGED <<nodes, files, chunkRows, clients, blobs, upl, dl, hStat, selVars>>

\* AddNode succeeds, the Nodes() call of FetchNodes fails: 500
RegisterFetchFails(b) ==
  /\ CanFail
  /\ faults' = faults + 1
  /\ nodes' = nodes \cup {b}
  /\ regReq' = Registered(b, 500, "fetch clients", nodes', clients)
  /\ UNCHANGED <<files, chunkRows, clients, blobs, upl, dl, hStat, selVars>>

\* ---- Handler.UpdateNodeStats -------------------------------------------
\* an update that appends the new statistics to the ones already stored
StoredStatAppended(old, stats) == old \o stats

\* h.stat = stats: the whole slice is replaced
StoredStat(old, stats) == stats

\* UpdateNodeStats, as NodeStatUpdater calls it on every tick: one call of
\* NodeStats, whose result is stored under the mutex
UpdateNodeStats ==
  /\ \E stats \in NodeStats(nodes, chunkRows) : hStat' = StoredStat(hStat, stats)
  /\ UNCHANGED <<storeVars, clients, blobs, upl, dl, faults, regReq, selVars>>

\* the NodeStats() call of UpdateNodeStats fails: the error is returned
\* before the mutex is taken
UpdateNodeStatsFails ==
  /\ CanFail
  /\ faults' = faults + 1
  /\ UNCHANGED <<storeVars, clients, blobs, upl, dl, regReq, hStat, selVars>>

\* ---- Handler.upload --------------------------------------------------
\* FetchNodes, ParseMultipartForm and the choice of the file part
UploadFetch(u, name, size) ==
  /\ upl[u].pc = "idle"
  /\ clients' = FetchedClients(clients, nodes)
  /\ upl' = [upl EXCEPT ![u].pc = "place", ![u].name = name,
                        ![u].data = Data(u, size)]
  /\ UNCHANGED <<storeVars, blobs, dl, faults, regReq, hStat, selVars>>

\* the Nodes() call of FetchNodes fails: 500
UploadFetchFails(u) ==
  /\ upl[u].pc = "idle"
  /\ CanFail
  /\ faults' = faults + 1
  /\ upl' = [upl EXCEPT ![u].pc = "done", ![u].status = 500,
                        ![u].resp = "fetch clients"]
  /\ UNCHANGED <<storeVars, clients, blobs, dl, regReq, hStat, selVars>>

\* the form holds no file part: 400
UploadNoFile(u) ==
  /\ upl[u].pc = "idle"
  /\ clients' = FetchedClients(clients, nodes)
  /\ upl' = [upl EXCEPT ![u].pc = "done", ![u].status = 400,
                        ![u].resp = "file is required"]
  /\ UNCHANGED <<storeVars, blobs, dl, faults, regReq, hStat, selVars>>

\* NextClients, the chunk descriptors, and the start of the N+1 tasks
UploadPlace(u) ==
  /\ upl[u].pc = "place"
  /\ \E stat \in NodeStats(nodes, chunkRows) :
       \E sel \in selectLeastFilledNodes(stat, chunksPerFile) :
         IF Len(sel) = 0
           THEN /\ upl' = [upl EXCEPT ![u].pc = "done", ![u].status = 500,
                                      ![u].resp = "no nodes"]
                /\ UNCHANGED clients
           ELSE LET reg == WithClients(clients, {sel[i].BaseURL : i \in DOMAIN sel})
                    cl == [i \in DOMAIN sel |-> reg[sel[i].BaseURL]]
                IN  /\ clients' = reg
                    /\ upl' = [upl EXCEPT
                                 ![u].pc = "run",
                                 ![u].chunks = BuildChunks(u, Len(upl[u].data), cl,
                                                         chunksPerFile),
                                 ![u].task = [i \in 1..(chunksPerFile + 1) |-> "run"]]
  /\ UNCHANGED <<storeVars, blobs, dl, faults, regReq, hStat, selVars>>

\* the NodeStats() call of NextClients fails: 500
UploadPlaceFails(u) ==
  /\ upl[u].pc = "place"
  /\ CanFail
  /\ faults' = faults + 1
  /\ upl' = [upl EXCEPT ![u].pc = "done", ![u].status = 500,
                        ![u].resp = "node stats"]
  /\ UNCHANGED <<storeVars, clients, blobs, dl, regReq, hStat, selVars>>

\* task i: client.Write(chunk.ID, LimitReaderFrom{formFile, Size, Offset})
WriteChunk(u, i) ==
  /\ i \in 1..chunksPerFile
  /\ i \in DOMAIN upl[u].task
  /\ upl[u].task[i] = "run"
  /\ LET c == upl[u].chunks[i]
     IN  blobs' = PutBlob(blobs, c.NodeBaseURL, c.ID,
                          LimitReadAll(upl[u].data, c.Size, c.Offset))
  /\ upl' = [upl EXCEPT ![u].task[i] = "ok"]
  /\ UNCHANGED <<storeVars, clients, dl, faults, regReq, hStat, selVars>>

\* task i fails; the node may or may not have stored the chunk.  A failure
\* after the context of the group was cancelled is not an injected one.
WriteChunkFails(u, i, stored) ==
  /\ i \in 1..chunksPerFile
  /\ i \in DOMAIN upl[u].task
  /\ upl[u].task[i] = "run"
  /\ IF Cancelled(upl[u], "group")
       THEN UNCHANGED faults
       ELSE CanFail /\ faults' = faults + 1
  /\ LET c == upl[u].chunks[i]
     IN  blobs' = IF stored
                    THEN PutBlob(blobs, c.NodeBaseURL, c.ID,
                                 LimitReadAll(upl[u].data, c.Size, c.Offset))
                    ELSE blobs
  /\ upl' = [upl EXCEPT ![u].task[i] = "err",
                        ![u].err = FirstErr(upl[u].err, "write")]
  /\ UNCHANGED <<storeVars, clients, dl, regReq, hStat, selVars>>

\* the uploads of the same name whose cleanup removed the file before this
\* AddFile commit of another upload
Superseded(ups, u) ==
  [v \in DOMAIN ups |->
     IF v # u /\ ups[v].name = ups[u].name /\ ups[v].removed = "ok"
       THEN [ups[v] EXCEPT !.otherAdd = TRUE]
       ELSE ups[v]]

\* task N+1: h.storage.AddFile(file), one transaction
AddFile(u) ==
  /\ (chunksPerFile + 1) \in DOMAIN upl[u].task
  /\ upl[u].task[chunksPerFile + 1] = "run"
  /\ LET file == UploadFile(upl[u].name, upl[u].data, upl[u].chunks)
     IN  /\ files' = AddFileFiles(files, file)
         /\ chunkRows' = AddFileChunks(chunkRows, file)
  /\ upl' = Superseded([upl EXCEPT ![u].task[chunksPerFile + 1] = "ok"], u)
  /\ UNCHANGED <<nodes, clients, blobs, dl, faults, regReq, hStat, selVars>>

\* AddFile returns an error; the transaction committed or did not
AddFileFails(u, committed) ==
  /\ (chunksPerFile + 1) \in DOMAIN upl[u].task
  /\ upl[u].task[chunksPerFile + 1] = "run"
  /\ IF Cancelled(upl[u], "group")
       THEN UNCHANGED faults
       ELSE CanFail /\ faults' = faults + 1
  /\ IF committed
       THEN LET file == UploadFile(upl[u].name, upl[u].data, upl[u].chunks)
            IN  /\ files' = AddFileFiles(files, file)
                /\ chunkRows' = AddFileChunks(chunkRows, file)
       ELSE UNCHANGED <<files, chunkRows>>
  /\ LET ups == [upl EXCEPT ![u].task[chunksPerFile + 1] = "err",
                           ![u].err = FirstErr(upl[u].err, "upsert file")]
     IN  upl' = IF committed THEN Superseded(ups, u) ELSE ups
  /\ UNCHANGED <<nodes, clients, blobs, dl, regReq, hStat, selVars>>

\* g.Wait returned nil: 200 and the download URL
UploadRespondOK(u) ==
  /\ upl[u].pc = "run"
  /\ AllTasksReturned(upl[u].task)
  /\ upl[u].err = ""
  /\ upl' = [upl EXCEPT ![u].pc = "done", ![u].status = 200]
  /\ UNCHANGED <<storeVars, clients, blobs, dl, faults, regReq, hStat, selVars>>

\* g.Wait returned an error: cleanup starts
UploadStartCleanup(u) ==
  /\ upl[u].pc = "run"
  /\ AllTasksReturned(upl[u].task)
  /\ upl[u].err # ""
  /\ upl' = [upl EXCEPT ![u].pc = "cleanup", ![u].k = 1,
                        ![u].cleanupCtx = CleanupCtx]
  /\ UNCHANGED <<storeVars, clients, blobs, dl, faults, regReq, hStat, selVars>>

\* a cleanup loop that gives up at the first Delete that fails
NextCleanupIndexBreak(k, ok) == IF ok THEN k + 1 ELSE chunksPerFile + 1

\* the cleanup loop moves on to the next chunk whatever Delete returned
NextCleanupIndex(k, ok) == k + 1

\* cleanup: client.Delete(chunk.ID) for the next chunk; ok tells whether
\* the Delete succeeded (a failure is logged and the loop goes on).  A call
\* issued under a cancelled context fails.
CleanupDelete(u, ok) ==
  /\ upl[u].pc = "cleanup"
  /\ upl[u].k <= chunksPerFile
  /\ ok => ~Cancelled(upl[u], upl[u].cleanupCtx)
  /\ LET c == upl[u].chunks[upl[u].k]
     IN  /\ clients' = WithClients(clients, {c.NodeBaseURL})
         /\ blobs' = IF ok THEN DropBlob(blobs, c.NodeBaseURL, c.ID) ELSE blobs
         /\ upl' = [upl EXCEPT
                      ![u].k = NextCleanupIndex(upl[u].k, ok),
                      ![u].deletes = Append(upl[u].deletes,
                                            <<c.NodeBaseURL, c.ID, ok>>)]
  /\ UNCHANGED <<storeVars, dl, faults, regReq, hStat, selVars>>

\* cleanup: h.storage.RemoveFile(name), then the 500 with the group's error
CleanupRemove(u, ok) ==
  /\ upl[u].pc = "cleanup"
  /\ upl[u].k > chunksPerFile
  /\ ok => ~Cancelled(upl[u], upl[u].cleanupCtx)
  /\ IF ok
       THEN /\ files' = DeleteFileRow(files, upl[u].name)
            /\ chunkRows' = DeleteChunkRows(chunkRows, upl[u].name)
       ELSE UNCHANGED <<files, chunkRows>>
  /\ upl' = [upl EXCEPT ![u].pc = "done", ![u].status = 500,
                        ![u].resp = upl[u].err,
                        ![u].removed = IF ok THEN "ok" ELSE "err",
                        ![u].otherAdd = FALSE]
  /\ UNCHANGED <<nodes, clients, blobs, dl, faults, regReq, hStat, selVars>>

\* the client goes away while the tasks of its upload run or while the
\* upload is cleaned up: r.Context() is cancelled
UploadCancel(u) ==
  /\ upl[u].pc \in {"run", "cleanup"}
  /\ ~upl[u].cancelled
  /\ CanFail
  /\ faults' = faults + 1
  /\ upl' = [upl EXCEPT ![u].cancelled = TRUE]
  /\ UNCHANGED <<storeVars, clients, blobs, dl, regReq, hStat, selVars>>

\* ---- Handler.download ------------------------------------------------
\* the uploads that have been answered with the given status
Answered(status) ==
  {u \in DOMAIN upl : upl[u].pc = "done" /\ upl[u].status = status}

\* a lookup that goes on to the chunk query when the file row is missing
DownloadFileRowGoesOn(d, name) ==
  /\ dl[d].pc = "idle"
  /\ dl' = [dl EXCEPT ![d].pc = "chunks", ![d].name = name,
                      ![d].size = IF name \in DOMAIN files THEN files[name] ELSE 0,
                      ![d].after = Answered(200)]
  /\ UNCHANGED <<storeVars, clients, blobs, upl, faults, regReq, hStat, selVars>>

\* File(name), first query: the row of table files
DownloadFileRow(d, name) ==
  /\ dl[d].pc = "idle"
  /\ dl' = IF name \in DOMAIN files
             THEN [dl EXCEPT ![d].pc = "chunks", ![d].name = name,
                             ![d].size = files[name],
                             ![d].after = Answered(200)]
             ELSE [dl EXCEPT ![d].pc = "done", ![d].name = name,
                             ![d].status = 500,
                             ![d].after = Answered(200)]
  /\ UNCHANGED <<storeVars, clients, blobs, upl, faults, regReq, hStat, selVars>>

\* File(name), second query: the rows of table chunks; no row is an error
DownloadChunkRows(d) ==
  /\ dl[d].pc = "chunks"
  /\ \E ch \in FileChunks(chunkRows, dl[d].name) :
       dl' = IF Len(ch) = 0
               THEN [dl EXCEPT ![d].pc = "done", ![d].status = 500]
               ELSE [dl EXCEPT ![d].pc = "read", ![d].status = 200,
                               ![d].chunks = ch, ![d].k = 1]
  /\ UNCHANGED <<storeVars, clients, blobs, upl, faults, regReq, hStat, selVars>>

\* one of the two queries of File fails: 500
DownloadFileFails(d, name) ==
  /\ dl[d].pc \in {"idle", "chunks"}
  /\ dl[d].pc = "chunks" => name = dl[d].name
  /\ CanFail
  /\ faults' = faults + 1
  /\ dl' = [dl EXCEPT ![d].pc = "done", ![d].name = name, ![d].status = 500]
  /\ UNCHANGED <<storeVars, clients, blobs, upl, regReq, hStat, selVars>>

\* the next iteration of the loop over file.Chunks: client.Read into the
\* response; a node that does not hold the chunk answers with an error
DownloadRead(d) ==
  /\ dl[d].pc = "read"
  /\ LET c == dl[d].chunks[dl[d].k]
         key == ChunkPath(c.NodeBaseURL, c.ID)
     IN  /\ clients' = WithClients(clients, {c.NodeBaseURL})
         /\ dl' = IF key \in DOMAIN blobs
                    THEN [dl EXCEPT
                            ![d].body = dl[d].body \o blobs[key],
                            ![d].reads = Append(dl[d].reads, c.Index),
                            ![d].k = dl[d].k + 1,
                            ![d].pc = IF dl[d].k = Len(dl[d].chunks)
                                        THEN "done" ELSE "read"]
                    ELSE [dl EXCEPT ![d].pc = "done", ![d].failed = TRUE]
  /\ UNCHANGED <<storeVars, blobs, upl, faults, regReq, hStat, selVars>>

\* the read of the next chunk fails after n of its bytes were sent
DownloadReadFails(d, n) ==
  /\ dl[d].pc = "read"
  /\ CanFail
  /\ faults' = faults + 1
  /\ LET c == dl[d].chunks[dl[d].k]
         key == ChunkPath(c.NodeBaseURL, c.ID)
         blob == IF key \in DOMAIN blobs THEN blobs[key] ELSE <<>>
     IN  /\ n <= Len(blob)
         /\ clients' = WithClients(clients, {c.NodeBaseURL})
         /\ dl' = [dl EXCEPT ![d].body = dl[d].body \o SubSeq(blob, 1, n),
                             ![d].pc = "done", ![d].failed = TRUE]
  /\ UNCHANGED <<storeVars, blobs, upl, regReq, hStat, selVars>>

\* ------------------------------------------------------------------------
\* The frontend while every call to the store and to the nodes succeeds:
\* registrations, uploads and downloads in any interleaving.
\* ------------------------------------------------------------------------
Next ==
  \/ \E b \in URLs : Register(b)
  \/ \E u \in UploadIds, name \in FileNames, size \in UploadSizes :
       UploadFetch(u, name, size)
  \/ \E u \in UploadIds : UploadNoFile(u)
  \/ \E u \in UploadIds : UploadPlace(u)
  \/ \E u \in UploadIds, i \in 1..chunksPerFile : WriteChunk(u, i)
  \/ \E u \in UploadIds : AddFile(u)
  \/ \E u \in UploadIds : UploadRespondOK(u)
  \/ \E d \in DownloadIds, name \in FileNames : DownloadFileRow(d, name)
  \/ \E d \in DownloadIds : DownloadChunkRows(d)
  \/ \E d \in DownloadIds : DownloadRead(d)

Spec == Init /\ [][Next]_vars

\* ------------------------------------------------------------------------
\* Registrations and uploads while the environment injects failures.  The
\* clients submit one upload at a time.
\* ------------------------------------------------------------------------
\* no upload other than u is in flight
NoOtherUpload(u) ==
  \A v \in UploadIds \ {u} : upl[v].pc \in {"idle", "done"}

NextFail ==
  \/ \E b \in URLs : Register(b)
  \/ \E b \in URLs : RegisterAddNodeFails(b)
  \/ \E b \in URLs : RegisterFetchFails(b)
  \/ \E u \in UploadIds, name \in FileNames, size \in UploadSizes :
       NoOtherUpload(u) /\ UploadFetch(u, name, size)
  \/ \E u \in UploadIds : NoOtherUpload(u) /\ UploadFetchFails(u)
  \/ \E u \in UploadIds : NoOtherUpload(u) /\ UploadNoFile(u)
  \/ \E u \in UploadIds : UploadPlace(u)
  \/ \E u \in UploadIds : UploadPlaceFails(u)
  \/ \E u \in UploadIds, i \in 1..chunksPerFile : WriteChunk(u, i)
  \/ \E u \in UploadIds, i \in 1..chunksPerFile, stored \in BOOLEAN :
       WriteChunkFails(u, i, stored)
  \/ \E u \in UploadIds : AddFile(u)
  \/ \E u \in UploadIds, committed \in BOOLEAN : AddFileFails(u, committed)
  \/ \E u \in UploadIds : UploadRespondOK(u)
  \/ \E u \in UploadIds : UploadStartCleanup(u)
  \/ \E u \in UploadIds, ok \in BOOLEAN : CleanupDelete(u, ok)
  \/ \E u \in UploadIds, ok \in BOOLEAN : CleanupRemove(u, ok)

SpecFail == Init /\ [][NextFail]_vars

\* ------------------------------------------------------------------------
\* The same, with clients that can go away during their upload.
\* ------------------------------------------------------------------------
NextCancel ==
  \/ \E b \in URLs : Register(b)
  \/ \E b \in URLs : RegisterAddNodeFails(b)
  \/ \E b \in URLs : RegisterFetchFails(b)
  \/ \E u \in UploadIds, name \in FileNames, size \in UploadSizes :
       NoOtherUpload(u) /\ UploadFetch(u, name, size)
  \/ \E u \in UploadIds : NoOtherUpload(u) /\ UploadFetchFails(u)
  \/ \E u \in UploadIds : NoOtherUpload(u) /\ UploadNoFile(u)
  \/ \E u \in UploadIds : UploadPlace(u)
  \/ \E u \in UploadIds : UploadPlaceFails(u)
  \/ \E u \in UploadIds, i \in 1..chunksPerFile : WriteChunk(u, i)
  \/ \E u \in UploadIds, i \in 1..chunksPerFile, stored \in BOOLEAN :
       WriteChunkFails(u, i, stored)
  \/ \E u \in UploadIds : AddFile(u)
  \/ \E u \in UploadIds, committed \in BOOLEAN : AddFileFails(u, committed)
  \/ \E u \in UploadIds : UploadCancel(u)
  \/ \E u \in UploadIds : UploadRespondOK(u)
  \/ \E u \in UploadIds : UploadStartCleanup(u)
  \/ \E u \in UploadIds, ok \in BOOLEAN : CleanupDelete(u, ok)
  \/ \E u \in UploadIds, ok \in BOOLEAN : CleanupRemove(u, ok)

SpecCancel == Init /\ [][NextCancel]_vars

\* ------------------------------------------------------------------------
\* The frontend with downloads that can fail: registrations, uploads whose
\* calls all succeed, and downloads whose metadata lookup or chunk reads the
\* environment can make fail.
\* ------------------------------------------------------------------------
NextDownload ==
  \/ \E b \in URLs : Register(b)
  \/ \E u \in UploadIds, name \in FileNames, size \in UploadSizes :
       UploadFetch(u, name, size)
  \/ \E u \in UploadIds : UploadPlace(u)
  \/ \E u \in UploadIds, i \in 1..chunksPerFile : WriteChunk(u, i)
  \/ \E u \in UploadIds : AddFile(u)
  \/ \E u \in UploadIds : UploadRespondOK(u)
  \/ \E d \in DownloadIds, name \in FileNames : DownloadFileRow(d, name)
  \/ \E d \in DownloadIds, name \in FileNames : DownloadFileFails(d, name)
  \/ \E d \in DownloadIds : DownloadChunkRows(d)
  \/ \E d \in DownloadIds : DownloadRead(d)
  \/ \E d \in DownloadIds, n \in 0..(chunksPerFile + 1) : DownloadReadFails(d, n)

SpecDownload == Init /\ [][NextDownload]_vars

\* ------------------------------------------------------------------------
\* The frontend with its background task: registrations and uploads whose
\* calls all succeed, while NodeStatUpdater refreshes the cached statistics
\* at any time, with a NodeStats call that can fail.
\* ------------------------------------------------------------------------
NextStat ==
  \/ \E b \in URLs : Register(b)
  \/ \E u \in UploadIds, name \in FileNames, size \in UploadSizes :
       UploadFetch(u, name, size)
  \/ \E u \in UploadIds : UploadPlace(u)
  \/ \E u \in UploadIds, i \in 1..chunksPerFile : WriteChunk(u, i)
  \/ \E u \in UploadIds : AddFile(u)
  \/ \E u \in UploadIds : UploadRespondOK(u)
  \/ UpdateNodeStats
  \/ UpdateNodeStatsFails

SpecStat == Init /\ [][NextStat]_vars

\* ------------------------------------------------------------------------
\* Harness of the placement function.
\* ------------------------------------------------------------------------
InitPlace ==
  /\ fnIn \in [nodes : NodeStatLists, n : 1..MaxSelN]
  /\ fnOut = <<>>
  /\ fnPc = "call"
  /\ InitSys

\* one call of selectLeastFilledNodes(nodes, n)
SelectLeastFilled ==
  /\ fnPc = "call"
  /\ \E out \in selectLeastFilledNodes(fnIn.nodes, fnIn.n) : fnOut' = out
  /\ fnPc' = "ret"
  /\ UNCHANGED <<fnIn, sysVars>>

NextPlace == SelectLeastFilled

SpecPlace == InitPlace /\ [][NextPlace]_vars

\* ------------------------------------------------------------------------
\* Harness of the split: an upload handled with n chunks per file builds
\* the File of a file of the given size, every chunk placed on node 1.
\* ------------------------------------------------------------------------
InitSplit ==
  /\ fnIn \in [size : 0..MaxSplitSize, n : 1..MaxSelN]
  /\ fnOut = <<>>
  /\ fnPc = "call"
  /\ InitSys

SplitFile ==
  /\ fnPc = "call"
  /\ fnOut' = UploadFile(1, Data(1, fnIn.size),
                          BuildChunks(1, fnIn.size,
                                      [i \in 1..fnIn.n |-> NewClient(1)],
                                      fnIn.n))
  /\ fnPc' = "ret"
  /\ UNCHANGED <<fnIn, sysVars>>

NextSplit == SplitFile

SpecSplit == InitSplit /\ [][NextSplit]_vars

\* ------------------------------------------------------------------------
\* Harness of the metadata store: AddNode, AddFile and RemoveFile are called
\* directly, one after the other and in any order.  fnIn is the last call
\* (repeat: it is the same call as the one before it), fnOut the content of
\* the store before the last call.
\* ------------------------------------------------------------------------
StoreNames == 1..MaxStoreNames

\* the File of n chunks for the given name, built as upload builds it; its
\* chunk identifiers are its own, its size tells it from the other Files of
\* the name, and its chunks are spread over the nodes
StoreFile(name, n) ==
  LET u == MaxStoreChunks * (name - 1) + n
      size == n + 1
  IN  UploadFile(name, Data(u, size),
                 BuildChunks(u, size,
                             [i \in 1..n |-> NewClient(((u + i) % MaxNodes) + 1)],
                             n))

StoreFiles == {StoreFile(name, n) : name \in StoreNames, n \in 1..MaxStoreChunks}

Snapshot == [nodes |-> nodes, files |-> files, chunkRows |-> chunkRows]

InitStore ==
  /\ InitSys
  /\ fnIn = [op |-> "none", arg |-> 0, repeat |-> FALSE]
  /\ fnOut = [nodes |-> {}, files |-> <<>>, chunkRows |-> {}]
  /\ fnPc = "store"

\* the bookkeeping of one call to the store
StoreCall(op, arg) ==
  /\ fnPc = "store"
  /\ fnIn' = [op |-> op, arg |-> arg,
              repeat |-> (fnIn.op = op /\ fnIn.arg = arg)]
  /\ fnOut' = Snapshot
  /\ UNCHANGED <<fnPc, clients, blobs, upl, dl, faults, regReq, hStat>>

StoreAddNode(b) ==
  /\ StoreCall("AddNode", b)
  /\ nodes' = UpsertNode(nodes, b)
  /\ UNCHANGED <<files, chunkRows>>

StoreAddFile(file) ==
  /\ StoreCall("AddFile", file)
  /\ files' = AddFileFiles(files, file)
  /\ chunkRows' = AddFileChunks(chunkRows, file)
  /\ UNCHANGED nodes

StoreRemoveFile(name) ==
  /\ StoreCall("RemoveFile", name)
  /\ files' = DeleteFileRow(files, name)
  /\ chunkRows' = DeleteChunkRows(chunkRows, name)
  /\ UNCHANGED nodes

NextStore ==
  \/ \E b \in URLs : StoreAddNode(b)
  \/ \E file \in StoreFiles : StoreAddFile(file)
  \/ \E name \in StoreNames : StoreRemoveFile(name)

SpecStore == InitStore /\ [][NextStore]_vars

\* ------------------------------------------------------------------------
\* The metadata store with readers: File(name) lookups, each made of its
\* two queries, run while AddFile and RemoveFile are called.
\* ------------------------------------------------------------------------
NextLookup ==
  \/ \E file \in StoreFiles : StoreAddFile(file)
  \/ \E name \in StoreNames : StoreRemoveFile(name)
  \/ \E d \in DownloadIds, name \in StoreNames :
       DownloadFileRow(d, name)
  \/ \E d \in DownloadIds : DownloadChunkRows(d)

SpecLookup == InitStore /\ [][NextLookup]_vars

\* ------------------------------------------------------------------------
\* Two uploads of different names that overlap in time, while every call
\* to the store and to the nodes succeeds: upload u sends the file named u.
\* Downloads start once both uploads have been answered.
\* ------------------------------------------------------------------------
PairIds == {1, 2}

InitPair ==
  /\ nodes = {}
  /\ files = <<>>
  /\ chunkRows = {}
  /\ clients = <<>>
  /\ blobs = <<>>
  /\ upl = [u \in PairIds |-> NoUpload]
  /\ dl = [d \in DownloadIds |-> NoDownload]
  /\ faults = 0
  /\ regReq = NoRegister
  /\ hStat = <<>>
  /\ SelIdle

PairAnswered == \A u \in PairIds : upl[u].pc = "done"

NextPair ==
  \/ \E b \in URLs : Register(b)
  \/ \E u \in PairIds : UploadFetch(u, u, 2 * chunksPerFile + 1)
  \/ \E u \in PairIds : UploadPlace(u)
  \/ \E u \in PairIds, i \in 1..chunksPerFile : WriteChunk(u, i)
  \/ \E u \in PairIds : AddFile(u)
  \/ \E u \in PairIds : UploadRespondOK(u)
  \/ \E d \in DownloadIds, name \in PairIds :
       PairAnswered /\ DownloadFileRow(d, name)
  \/ \E d \in DownloadIds : DownloadChunkRows(d)
  \/ \E d \in DownloadIds : DownloadRead(d)

SpecPair == InitPair /\ [][NextPair]_vars

\* ------------------------------------------------------------------------
\* Harness of LimitReaderFrom: a consumer calls Read with buffers of any
\* size in 1..ReadBuf, and goes on after the first end-of-stream.  fnIn is
\* the reader as constructed; fnOut is the reader now, the bytes collected,
\* the number of reads and of reads that reported an error, and the result
\* of the last read.
\* ------------------------------------------------------------------------
InitRead ==
  /\ InitSys
  /\ \E len \in 0..MaxSrcLen :
       \E N \in 0..len :
         \E Offset \in 0..(len - N) :
           fnIn = [R |-> Data(1, len), N |-> N, Offset |-> Offset]
  /\ fnOut = [l |-> fnIn, got |-> <<>>, reads |-> 0, eofs |-> 0,
              n |-> 0, err |-> ""]
  /\ fnPc = "read"

ReadStep(plen, eofAtEnd) ==
  /\ fnPc = "read"
  /\ fnOut.eofs < MaxEofReads
  /\ LET r == LimitRead(fnOut.l, plen, eofAtEnd)
     IN  fnOut' = [l |-> r.l,
                   got |-> fnOut.got \o r.data,
                   reads |-> fnOut.reads + 1,
                   eofs |-> fnOut.eofs + (IF r.err = "" THEN 0 ELSE 1),
                   n |-> Len(r.data),
                   err |-> r.err]
  /\ UNCHANGED <<fnIn, fnPc, sysVars>>

NextRead == \E plen \in 1..ReadBuf, eofAtEnd \in BOOLEAN : ReadStep(plen, eofAtEnd)

SpecRead == InitRead /\ [][NextRead]_vars

\* ------------------------------------------------------------------------
\* Harness of the chunk store of one storage node (Chunks): Write, Read and
\* Delete are called directly, one after the other.  fnIn is the last call;
\* fnOut holds its result (err, sink), the store before it, and for every
\* identifier whose last Write or Delete was a Write that succeeded, the
\* bytes of that Write.
\* ------------------------------------------------------------------------
NodeChunkIds == {<<0, 0, c>> : c \in 0..(MaxNodeChunks - 1)} \cup {<<0, 1, 0>>}

NodeChunkData == {Data(1, len) : len \in 0..MaxChunkLen}

InitNode ==
  /\ InitSys
  /\ fnIn = [op |-> "none", id |-> <<>>]
  /\ fnOut = [err |-> "", sink |-> <<>>, before |-> <<>>, written |-> <<>>]
  /\ fnPc = "node"

\* Chunks.Write(id, r) where r delivers data
NodeWrite(id, data) ==
  /\ fnPc = "node"
  /\ blobs' = PutBlob(blobs, 1, id, data)
  /\ fnIn' = [op |-> "Write", id |-> id]
  /\ fnOut' = [err |-> "", sink |-> <<>>, before |-> blobs,
               written |-> [k \in (DOMAIN fnOut.written) \cup {id} |->
                              IF k = id THEN data ELSE fnOut.written[k]]]
  /\ UNCHANGED <<fnPc, nodes, files, chunkRows, clients, upl, dl, faults, regReq, hStat>>

\* Chunks.Write(id, r) where r fails: the file is created, then removed
NodeWriteFails(id) ==
  /\ fnPc = "node"
  /\ blobs' = DropBlob(blobs, 1, id)
  /\ fnIn' = [op |-> "Write", id |-> id]
  /\ fnOut' = [err |-> "copy", sink |-> <<>>, before |-> blobs,
               written |-> [k \in (DOMAIN fnOut.written) \ {id} |->
                              fnOut.written[k]]]
  /\ UNCHANGED <<fnPc, nodes, files, chunkRows, clients, upl, dl, faults, regReq, hStat>>

\* Chunks.Read(id, w)
NodeRead(id) ==
  /\ fnPc = "node"
  /\ fnIn' = [op |-> "Read", id |-> id]
  /\ fnOut' = [fnOut EXCEPT !.err = ChunksRead(blobs, 1, id).err,
                            !.sink = ChunksRead(blobs, 1, id).sink,
                            !.before = blobs]
  /\ UNCHANGED <<fnPc, sysVars>>

\* Chunks.Delete(id)
NodeDelete(id) ==
  /\ fnPc = "node"
  /\ blobs' = DropBlob(blobs, 1, id)
  /\ fnIn' = [op |-> "Delete", id |-> id]
  /\ fnOut' = [err |-> DeleteErr(blobs, 1, id), sink |-> <<>>, before |-> blobs,
               written |-> [k \in (DOMAIN fnOut.written) \ {id} |->
                              fnOut.written[k]]]
  /\ UNCHANGED <<fnPc, nodes, files, chunkRows, clients, upl, dl, faults, regReq, hStat>>

NextNode ==
  \/ \E id \in NodeChunkIds, data \in NodeChunkData : NodeWrite(id, data)
  \/ \E id \in NodeChunkIds : NodeWriteFails(id)
  \/ \E id \in NodeChunkIds : NodeRead(id)
  \/ \E id \in NodeChunkIds : NodeDelete(id)

SpecNode == InitNode /\ [][NextNode]_vars

\* ------------------------------------------------------------------------
\* Harness of the HTTP surface of one storage node (node.NewHandler over
\* Chunks) as node.Client sees it: requests on /chunks/{id}, one after the
\* other.  fnIn is the last request; fnOut holds the status and the body of
\* its response, the error the matching method of node.Client returns for
\* it, and the store before it.
\* ------------------------------------------------------------------------
\* a path value that uuid.Parse rejects
BadChunkId == <<>>

\* node.Client maps every status but 200 to an error
ClientErr(status) == IF status = 200 THEN "" ELSE "unexpected status code"

\* the status the handler of /chunks/{id} answers with, for a method and the
\* error of the call to the storage it made (if any)
HandlerStatus(method, id, storageErr) ==
  IF id = BadChunkId
    THEN 400
    ELSE IF method \in {"GET", "PUT"}
      THEN (IF storageErr = "" THEN 200 ELSE 500)
      ELSE 405

InitNodeHTTP ==
  /\ InitSys
  /\ fnIn = [method |-> "none", id |-> BadChunkId]
  /\ fnOut = [status |-> 0, body |-> <<>>, err |-> "", before |-> <<>>]
  /\ fnPc = "http"

\* the bookkeeping of one request
HTTPCall(method, id, storageErr, body) ==
  /\ fnPc = "http"
  /\ fnIn' = [method |-> method, id |-> id]
  /\ fnOut' = [status |-> HandlerStatus(method, id, storageErr),
               body |-> body,
               err |-> ClientErr(HandlerStatus(method, id, storageErr)),
               before |-> blobs]
  /\ UNCHANGED <<fnPc, nodes, files, chunkRows, clients, upl, dl, faults, regReq, hStat>>

\* PUT /chunks/{id}: storage.Write(id, r.Body)
HTTPPut(id, data) ==
  /\ HTTPCall("PUT", id, "", <<>>)
  /\ blobs' = IF id = BadChunkId THEN blobs ELSE PutBlob(blobs, 1, id, data)

\* PUT /chunks/{id} whose body cannot be read to its end
HTTPPutFails(id) ==
  /\ HTTPCall("PUT", id, "copy", <<>>)
  /\ blobs' = IF id = BadChunkId THEN blobs ELSE DropBlob(blobs, 1, id)

\* GET /chunks/{id}: storage.Read(id, w)
HTTPGet(id) ==
  /\ IF id = BadChunkId
       THEN HTTPCall("GET", id, "", <<>>)
       ELSE HTTPCall("GET", id, ChunksRead(blobs, 1, id).err,
                     ChunksRead(blobs, 1, id).sink)
  /\ UNCHANGED blobs

\* DELETE /chunks/{id}: the handler has no case for the method
HTTPDelete(id) ==
  /\ HTTPCall("DELETE", id, "", <<>>)
  /\ UNCHANGED blobs

NextNodeHTTP ==
  \/ \E id \in NodeChunkIds \cup {BadChunkId}, data \in NodeChunkData : HTTPPut(id, data)
  \/ \E id \in NodeChunkIds \cup {BadChunkId} : HTTPPutFails(id)
  \/ \E id \in NodeChunkIds \cup {BadChunkId} : HTTPGet(id)
  \/ \E id \in NodeChunkIds \cup {BadChunkId} : HTTPDelete(id)

SpecNodeHTTP == InitNodeHTTP /\ [][NextNodeHTTP]_vars

\* ------------------------------------------------------------------------
\* NodeStatUpdater, the task NewHandler starts with `go`: a loop around a
\* select over ctx.Done() and the channel of a ticker.  fnPc tells whether
\* the task runs; fnIn.cancelled is the state of the context it was given;
\* fnOut.tick tells whether a tick waits in the channel of the ticker,
\* fnOut.last how the last call of UpdateNodeStats ended, and
\* fnOut.updaters counts the tasks started.  The store changes through
\* registrations.
\* ------------------------------------------------------------------------
\* a select without the case of ctx.Done()
DoneReadyNever(cancelled) == FALSE

\* `case <-ctx.Done()` can be taken once the context is cancelled
DoneReady(cancelled) == cancelled

\* an updater that returns when UpdateNodeStats fails
AfterFailedUpdateReturn == "exited"

\* the error of UpdateNodeStats is logged and the loop goes on
AfterFailedUpdate == "updater"

InitUpdater ==
  /\ InitSys
  /\ fnIn = [cancelled |-> FALSE]
  /\ fnOut = [tick |-> FALSE, last |-> "none", updaters |-> 1]
  /\ fnPc = "updater"

\* the ticker sends a tick; its channel holds one tick, and a tick that
\* finds the channel full is dropped
TickFires ==
  /\ fnPc = "updater"
  /\ ~fnOut.tick
  /\ fnOut' = [fnOut EXCEPT !.tick = TRUE]
  /\ UNCHANGED <<sysVars, fnIn, fnPc>>

\* the context given to NewHandler is cancelled
UpdaterCancel ==
  /\ ~fnIn.cancelled
  /\ fnIn' = [fnIn EXCEPT !.cancelled = TRUE]
  /\ UNCHANGED <<sysVars, fnOut, fnPc>>

\* `case <-ticker.C`, UpdateNodeStats succeeds: the snapshot is replaced.
\* A call issued under a cancelled context fails.
UpdaterTick ==
  /\ fnPc = "updater"
  /\ fnOut.tick
  /\ ~fnIn.cancelled
  /\ \E stats \in NodeStats(nodes, chunkRows) : hStat' = StoredStat(hStat, stats)
  /\ fnOut' = [fnOut EXCEPT !.tick = FALSE, !.last = "ok"]
  /\ UNCHANGED <<storeVars, clients, blobs, upl, dl, faults, regReq, fnIn, fnPc>>

\* `case <-ticker.C`, UpdateNodeStats fails: a warning is logged
UpdaterTickFails ==
  /\ fnPc = "updater"
  /\ fnOut.tick
  /\ IF fnIn.cancelled THEN UNCHANGED faults
                       ELSE CanFail /\ faults' = faults + 1
  /\ fnOut' = [fnOut EXCEPT !.tick = FALSE, !.last = "err"]
  /\ fnPc' = AfterFailedUpdate
  /\ UNCHANGED <<storeVars, clients, blobs, upl, dl, regReq, hStat, fnIn>>

\* `case <-ctx.Done()`: return; the deferred ticker.Stop() runs
UpdaterExit ==
  /\ fnPc = "updater"
  /\ DoneReady(fnIn.cancelled)
  /\ fnPc' = "exited"
  /\ UNCHANGED <<sysVars, fnIn, fnOut>>

UpdaterStep == UpdaterTick \/ UpdaterTickFails \/ UpdaterExit

NextUpdater ==
  \/ \E b \in URLs : Register(b)
  \/ \E b \in URLs : RegisterAddNodeFails(b)
  \/ TickFires
  \/ UpdaterCancel
  \/ UpdaterTick
  \/ UpdaterTickFails
  \/ UpdaterExit

\* The ticker keeps firing and the task is scheduled whenever it can take
\* a step.  When a tick and ctx.Done() are both ready, select chooses one
\* of them at random, so the case of ctx.Done() is not passed over forever.
SpecUpdater ==
  /\ InitUpdater
  /\ [][NextUpdater]_vars
  /\ WF_vars(TickFires)
  /\ WF_vars(UpdaterStep)
  /\ SF_vars(UpdaterExit)

\* ------------------------------------------------------------------------
\* The registry mutex h.mux, taken by FetchNodes, UpdateNodeStats and
\* GetClient, one statement at a time.  fnIn[p] is call p: its function
\* (op), its argument, the statement it is at (pc), the result of its
\* store call (list, until the function returns), the client it returns
\* (res).  fnOut.holder is the
\* task that holds the mutex (0: none); fnOut.ident[b] names the client
\* object stored under b by the call that built it; fnOut.made[b] counts
\* the clients GetClient built for b; fnOut.replaced holds the base URLs
\* whose entry FetchNodes has overwritten.  Table nodes grows through
\* AddNode.
\* ------------------------------------------------------------------------
MuxProcs == 1..MaxMuxProcs

MuxOps == {"FetchNodes", "UpdateNodeStats", "GetClient"}

NoCall == [op |-> "none", arg |-> 0, pc |-> "idle", list |-> <<>>, res |-> <<>>]

NoClient == <<>>

\* a mutex Lock() returns from whatever the state of the mutex
MuxFreeAlways(holder) == TRUE

\* Lock() returns only when no task holds the mutex
MuxFree(holder) == holder = 0

\* a return path that leaves the mutex locked
ReleasedHolderKept(p) == p

\* the deferred h.mux.Unlock()
ReleasedHolder(p) == 0

InitMux ==
  /\ InitSys
  /\ fnIn = [p \in MuxProcs |-> NoCall]
  /\ fnOut = [holder |-> 0, ident |-> [b \in URLs |-> NoClient],
              made |-> [b \in URLs |-> 0], replaced |-> {}]
  /\ fnPc = "mux"

\* AddNode of a registration: a row of table nodes
MuxAddNode(b) ==
  /\ fnPc = "mux"
  /\ b \notin nodes
  /\ nodes' = UpsertNode(nodes, b)
  /\ UNCHANGED <<files, chunkRows, clients, blobs, upl, dl, faults, regReq, hStat, selVars>>

\* a handler or the updater calls one of the three functions
MuxStart(p, op, b) ==
  /\ fnPc = "mux"
  /\ fnIn[p].pc \in {"idle", "done"}
  /\ op = "GetClient" \/ b = 0
  /\ op = "GetClient" => b \in URLs
  /\ fnIn' = [fnIn EXCEPT ![p] =
                [op |-> op, arg |-> b,
                 pc |-> IF op = "GetClient" THEN "lock" ELSE "call",
                 list |-> <<>>, res |-> NoClient]]
  /\ UNCHANGED <<sysVars, fnOut, fnPc>>

\* h.storage.Nodes(ctx) of FetchNodes, h.storage.NodeStats(ctx) of
\* UpdateNodeStats: the call before Lock()
MuxStoreCall(p) ==
  /\ fnIn[p].pc = "call"
  /\ \E r \in IF fnIn[p].op = "FetchNodes"
                THEN {nodes} ELSE NodeStats(nodes, chunkRows) :
       fnIn' = [fnIn EXCEPT ![p].pc = "lock", ![p].list = r]
  /\ UNCHANGED <<sysVars, fnOut, fnPc>>

\* the store call fails: the function returns its error before Lock()
MuxStoreCallFails(p) ==
  /\ fnIn[p].pc = "call"
  /\ fnIn' = [fnIn EXCEPT ![p].pc = "done", ![p].res = "err"]
  /\ UNCHANGED <<sysVars, fnOut, fnPc>>

\* h.mux.Lock()
MuxLock(p) ==
  /\ fnIn[p].pc = "lock"
  /\ MuxFree(fnOut.holder)
  /\ fnOut' = [fnOut EXCEPT !.holder = p]
  /\ fnIn' = [fnIn EXCEPT ![p].pc =
                IF fnIn[p].op = "GetClient" THEN "check" ELSE "store"]
  /\ UNCHANGED <<sysVars, fnPc>>

\* FetchNodes: h.clients[client.BaseURL] = h.newClient(client.BaseURL) for
\* every node listed
MuxFetchStore(p) ==
  /\ fnIn[p].pc = "store"
  /\ fnIn[p].op = "FetchNodes"
  /\ clients' = FetchedClients(clients, fnIn[p].list)
  /\ fnOut' = [fnOut EXCEPT
                 !.ident = [b \in URLs |->
                              IF b \in fnIn[p].list THEN <<"FetchNodes">>
                                                    ELSE fnOut.ident[b]],
                 !.replaced = fnOut.replaced \cup
                                (fnIn[p].list \cap DOMAIN clients)]
  /\ fnIn' = [fnIn EXCEPT ![p].pc = "unlock"]
  /\ UNCHANGED <<storeVars, blobs, upl, dl, faults, regReq, hStat, fnPc>>

\* UpdateNodeStats: h.stat = stats
MuxStatStore(p) ==
  /\ fnIn[p].pc = "store"
  /\ fnIn[p].op = "UpdateNodeStats"
  /\ hStat' = StoredStat(hStat, fnIn[p].list)
  /\ fnIn' = [fnIn EXCEPT ![p].pc = "unlock"]
  /\ UNCHANGED <<storeVars, clients, blobs, upl, dl, faults, regReq, fnOut, fnPc>>

\* GetClient: client, ok := h.clients[baseURL]
MuxGetCheck(p) ==
  /\ fnIn[p].pc = "check"
  /\ fnIn' = IF fnIn[p].arg \in DOMAIN clients
               THEN [fnIn EXCEPT ![p].pc = "unlock",
                                 ![p].res = fnOut.ident[fnIn[p].arg]]
               ELSE [fnIn EXCEPT ![p].pc = "make"]
  /\ UNCHANGED <<sysVars, fnOut, fnPc>>

\* GetClient: client = h.newClient(baseURL); h.clients[baseURL] = client
MuxGetMake(p) ==
  /\ fnIn[p].pc = "make"
  /\ LET b == fnIn[p].arg
     IN  /\ clients' = [k \in (DOMAIN clients) \cup {b} |->
                          IF k = b THEN NewClient(b) ELSE clients[k]]
         /\ fnOut' = [fnOut EXCEPT !.ident[b] = <<"GetClient", p>>,
                                   !.made[b] = fnOut.made[b] + 1]
         /\ fnIn' = [fnIn EXCEPT ![p].pc = "unlock",
                                 ![p].res = <<"GetClient", p>>]
  /\ UNCHANGED <<storeVars, blobs, upl, dl, faults, regReq, hStat, fnPc>>

\* the function returns and its deferred Unlock() runs
MuxUnlock(p) ==
  /\ fnIn[p].pc = "unlock"
  /\ fnOut' = [fnOut EXCEPT !.holder = ReleasedHolder(p)]
  /\ fnIn' = [fnIn EXCEPT ![p].pc = "done", ![p].list = <<>>]
  /\ UNCHANGED <<sysVars, fnPc>>

\* the statements of call p between Lock() and the return
MuxLocal(p) ==
  MuxFetchStore(p) \/ MuxStatStore(p) \/ MuxGetCheck(p) \/ MuxGetMake(p)
    \/ MuxUnlock(p)

NextMux ==
  \/ \E b \in URLs : MuxAddNode(b)
  \/ \E p \in MuxProcs, op \in MuxOps, b \in URLs \cup {0} : MuxStart(p, op, b)
  \/ \E p \in MuxProcs : MuxStoreCall(p)
  \/ \E p \in MuxProcs : MuxStoreCallFails(p)
  \/ \E p \in MuxProcs : MuxLock(p)
  \/ \E p \in MuxProcs : MuxFetchStore(p)
  \/ \E p \in MuxProcs : MuxStatStore(p)
  \/ \E p \in MuxProcs : MuxGetCheck(p)
  \/ \E p \in MuxProcs : MuxGetMake(p)
  \/ \E p \in MuxProcs : MuxUnlock(p)

\* A task that can run a statement is scheduled; a task blocked in Lock()
\* is not passed over forever (sync.Mutex hands the mutex to a waiter that
\* has been starved).
SpecMux ==
  /\ InitMux
  /\ [][NextMux]_vars
  /\ \A p \in MuxProcs : WF_vars(MuxLocal(p)) /\ SF_vars(MuxLock(p))

\* ------------------------------------------------------------------------
\* Two uploads of one name that overlap, without failures: each is stored
\* under file name 1, with a size of its own choice.
\* ------------------------------------------------------------------------
SameName == 1

NextSame ==
  \/ \E b \in URLs : Register(b)
  \/ \E u \in PairIds, size \in UploadSizes : UploadFetch(u, SameName, size)
  \/ \E u \in PairIds : UploadPlace(u)
  \/ \E u \in PairIds, i \in 1..chunksPerFile : WriteChunk(u, i)
  \/ \E u \in PairIds : AddFile(u)
  \/ \E u \in PairIds : UploadRespondOK(u)

SpecSame == InitPair /\ [][NextSame]_vars

\* ------------------------------------------------------------------------
\* An upload that succeeds, followed by a second upload, of the same name
\* or of another, in which Writes, AddFile and the calls of cleanup may
\* fail.
\* ------------------------------------------------------------------------
\* the first upload is of SameName and has 2 * chunksPerFile + 1 bytes;
\* the second one starts once the first has been answered
SeqStart(u, name, size) ==
  IF u = 1 THEN name = SameName /\ size = 2 * chunksPerFile + 1
           ELSE upl[1].pc = "done"

NextSeq ==
  \/ \E b \in URLs : Register(b)
  \/ \E u \in PairIds, name \in PairIds, size \in UploadSizes :
       SeqStart(u, name, size) /\ UploadFetch(u, name, size)
  \/ \E u \in PairIds : UploadPlace(u)
  \/ \E u \in PairIds, i \in 1..chunksPerFile : WriteChunk(u, i)
  \/ \E i \in 1..chunksPerFile, stored \in BOOLEAN : WriteChunkFails(2, i, stored)
  \/ \E u \in PairIds : AddFile(u)
  \/ \E committed \in BOOLEAN : AddFileFails(2, committed)
  \/ \E u \in PairIds : UploadRespondOK(u)
  \/ UploadStartCleanup(2)
  \/ \E ok \in BOOLEAN : CleanupDelete(2, ok)
  \/ \E ok \in BOOLEAN : CleanupRemove(2, ok)

SpecSeq == InitPair /\ [][NextSeq]_vars

\* ------------------------------------------------------------------------
\* The N Write tasks of one upload: each reads the source through a
\* LimitReaderFrom of its own until a Read reports an error, and sends what
\* it read.  fnIn is the source and the chunks; fnOut.l[i] is the reader of
\* task i, fnOut.sent[i] the bytes task i has sent, fnOut.done[i] tells
\* whether its reader has reported the end.
\* ------------------------------------------------------------------------
\* tasks that all read through the reader of the first chunk
ReaderShared(ls, i) == ls[1]

\* task i reads through the LimitReaderFrom built for chunk i
ReaderOf(ls, i) == ls[i]

InitUploaders ==
  /\ InitSys
  /\ \E size \in 0..MaxSendLen :
       fnIn = [R |-> Data(1, size), chunks |-> SplitChunks(size, chunksPerFile)]
  /\ fnOut = [l |-> [i \in 1..chunksPerFile |->
                       [R |-> fnIn.R, N |-> fnIn.chunks[i].Size,
                        Offset |-> fnIn.chunks[i].Offset]],
              sent |-> [i \in 1..chunksPerFile |-> <<>>],
              done |-> [i \in 1..chunksPerFile |-> FALSE]]
  /\ fnPc = "send"

\* one Read of task i with a buffer of plen bytes
UploaderRead(i, plen, eofAtEnd) ==
  /\ fnPc = "send"
  /\ ~fnOut.done[i]
  /\ LET r == LimitRead(ReaderOf(fnOut.l, i), plen, eofAtEnd)
     IN  fnOut' = [fnOut EXCEPT !.l[i] = r.l,
                                !.sent[i] = @ \o r.data,
                                !.done[i] = r.err # ""]
  /\ UNCHANGED <<fnIn, fnPc, sysVars>>

NextUploaders ==
  \E i \in 1..chunksPerFile, plen \in 1..ReadBuf, eofAtEnd \in BOOLEAN :
    UploaderRead(i, plen, eofAtEnd)

SpecUploaders == InitUploaders /\ [][NextUploaders]_vars

\* ========================================================================
\* Properties.
\* ========================================================================
ChunkIds(chunks) == {chunks[i].ID : i \in DOMAIN chunks}

RECURSIVE SumChunkSizes(_)
SumChunkSizes(chunks) ==
  IF Len(chunks) = 0 THEN 0
  ELSE chunks[1].Size + SumChunkSizes(Tail(chunks))

\* download d finished without an error after it looked up the metadata of
\* upload u
Downloaded(d, u) ==
  /\ dl[d].pc = "done"
  /\ dl[d].status = 200
  /\ ~dl[d].failed
  /\ dl[d].name = upl[u].name
  /\ ChunkIds(dl[d].chunks) = ChunkIds(upl[u].chunks)

\* C1: a download that starts after an upload of a non-empty file was
\* answered with success, and meets no error, streams exactly the uploaded
\* bytes.
C1_RoundTrip ==
  \A d \in DownloadIds, u \in UploadIds :
    (Downloaded(d, u) /\ u \in dl[d].after /\ Len(upl[u].data) > 0)
      => dl[d].body = upl[u].data

\* C2: the File handed to AddFile has exactly N chunks, with index i at
\* position i, offsets that start at 0 and are contiguous, and sizes that
\* sum to the size of the file.
C2_FileLayout ==
  fnPc = "ret" =>
    /\ fnOut.Size = fnIn.size
    /\ Len(fnOut.Chunks) = fnIn.n
    /\ \A i \in 1..fnIn.n : fnOut.Chunks[i].Index = i - 1
    /\ fnOut.Chunks[1].Offset = 0
    /\ \A i \in 2..fnIn.n :
         fnOut.Chunks[i].Offset =
           fnOut.Chunks[i - 1].Offset + fnOut.Chunks[i - 1].Size
    /\ \A i \in 1..fnIn.n : fnOut.Chunks[i].Size >= 0
    /\ SumChunkSizes(fnOut.Chunks) = fnIn.size

\* a file whose size leaves a remainder was split
C2_Witness ==
  /\ fnPc = "ret"
  /\ fnIn.n = 6
  /\ fnIn.size = 20
  /\ fnOut.Chunks[6].Size = 5

\* C3: when the file has fewer bytes than N, every chunk but the last has
\* size 0, the last chunk has the whole file and offset 0, every chunk has
\* its own identifier and a registered node, and a download that meets no
\* error returns exactly the uploaded bytes.
C3_SmallFile ==
  \A u \in UploadIds :
    (upl[u].chunks # <<>> /\ Len(upl[u].data) < chunksPerFile) =>
      /\ \A i \in 1..(chunksPerFile - 1) : upl[u].chunks[i].Size = 0
      /\ upl[u].chunks[chunksPerFile].Size = Len(upl[u].data)
      /\ upl[u].chunks[chunksPerFile].Offset = 0
      /\ Cardinality(ChunkIds(upl[u].chunks)) = chunksPerFile
      /\ \A i \in 1..chunksPerFile : upl[u].chunks[i].NodeBaseURL \in nodes
      /\ \A d \in DownloadIds :
           Downloaded(d, u) => dl[d].body = upl[u].data

\* a file of fewer than N bytes, not empty, was uploaded and downloaded
C3_Witness ==
  \E u \in UploadIds, d \in DownloadIds :
    /\ Downloaded(d, u)
    /\ u \in dl[d].after
    /\ Len(upl[u].data) > 0
    /\ Len(upl[u].data) < chunksPerFile
    /\ dl[d].body = upl[u].data

\* C4: for a non-empty list of node statistics, placement returns exactly n
\* entries, each an entry of the list; when the list has at least n nodes
\* the entries are n different nodes and no node left out has a strictly
\* smaller total size than a node returned.
C4_Placement ==
  (fnPc = "ret" /\ Len(fnIn.nodes) > 0) =>
    /\ Len(fnOut) = fnIn.n
    /\ \A i \in 1..Len(fnOut) : fnOut[i] \in Range(fnIn.nodes)
    /\ Len(fnIn.nodes) >= fnIn.n =>
         /\ \A i, j \in 1..Len(fnOut) : i # j => fnOut[i] # fnOut[j]
         /\ \A x \in Range(fnIn.nodes) \ Range(fnOut) :
              \A i \in 1..Len(fnOut) : x.TotalSize >= fnOut[i].TotalSize

\* two of three nodes were chosen and the node left out is strictly fuller
C4_Witness ==
  /\ fnPc = "ret"
  /\ Len(fnIn.nodes) = 3
  /\ fnIn.n = 2
  /\ \E x \in Range(fnIn.nodes) \ Range(fnOut) :
       \A i \in 1..Len(fnOut) : x.TotalSize > fnOut[i].TotalSize

\* the number of entries of a placement that name the node x
PlacedOn(x) == Cardinality({i \in 1..Len(fnOut) : fnOut[i] = x})

\* C5: with fewer nodes than n, entry i of the placement is the node at
\* position (i mod |nodes|) of the list sorted ascending by total size, so
\* every node gets floor(n/|nodes|) or ceil(n/|nodes|) chunks; 3 nodes and
\* n = 6 give 2 chunks per node.
C5_Cyclic ==
  (fnPc = "ret" /\ Len(fnIn.nodes) >= 1 /\ Len(fnIn.nodes) < fnIn.n) =>
    LET len == Len(fnIn.nodes)
    IN  /\ \E s \in Perms(Range(fnIn.nodes)) :
             /\ \A i, j \in 1..len : i < j => s[i].TotalSize <= s[j].TotalSize
             /\ Len(fnOut) = fnIn.n
             /\ \A i \in 1..fnIn.n : fnOut[i] = s[((i - 1) % len) + 1]
        /\ \A x \in Range(fnIn.nodes) :
             PlacedOn(x) \in {fnIn.n \div len, (fnIn.n + len - 1) \div len}
        /\ (len = 3 /\ fnIn.n = 6) =>
             \A x \in Range(fnIn.nodes) : PlacedOn(x) = 2

\* six chunks were placed on three nodes of different fill
C5_Witness ==
  /\ fnPc = "ret"
  /\ Len(fnIn.nodes) = 3
  /\ fnIn.n = 6
  /\ Len(fnOut) = 6
  /\ fnOut[1].TotalSize < fnOut[2].TotalSize
  /\ fnOut[4] = fnOut[1]

\* C6: an upload that reaches placement while no node is registered is
\* answered with 500, starts no task, and leaves the metadata store and
\* the nodes unchanged; while no node is registered the store and the
\* nodes are empty.
C6_NoNodes ==
  [][/\ \A u \in UploadIds :
          (nodes = {} /\ upl[u].pc = "place" /\ upl'[u].pc # "place") =>
            /\ upl'[u].pc = "done"
            /\ upl'[u].status = 500
            /\ upl'[u].task = <<>>
            /\ UNCHANGED <<nodes, files, chunkRows, blobs>>
     /\ nodes' = {} =>
          /\ files' = <<>> /\ chunkRows' = {} /\ blobs' = <<>>
          /\ \A u \in UploadIds : upl'[u].task = <<>> /\ upl'[u].status # 200
    ]_vars

\* an upload was answered with the "no nodes" error
C6_Witness ==
  \E u \in UploadIds :
    /\ nodes = {}
    /\ upl[u].pc = "done"
    /\ upl[u].status = 500
    /\ upl[u].resp = "no nodes"

\* the Delete calls cleanup has to issue for the first k chunks of upload u
ExpectedDeletes(u, k) ==
  [i \in 1..k |-> <<upl[u].chunks[i].NodeBaseURL, upl[u].chunks[i].ID>>]

\* the Delete calls cleanup issued for upload u, without their results
IssuedDeletes(u) ==
  [i \in 1..Len(upl[u].deletes) |-> <<upl[u].deletes[i][1], upl[u].deletes[i][2]>>]

\* C7: an upload one of whose tasks failed is answered only after cleanup
\* called Delete exactly once for each of its N chunks, on the node of the
\* chunk, whatever the Deletes returned, and then called RemoveFile; the
\* error reported is the error of the task that failed first.
C7_Cleanup ==
  \A u \in UploadIds :
    /\ upl[u].pc = "cleanup" =>
         /\ upl[u].k \in 1..(chunksPerFile + 1)
         /\ IssuedDeletes(u) = ExpectedDeletes(u, upl[u].k - 1)
         /\ upl[u].removed = "none"
    /\ (upl[u].pc = "done" /\ SomeTaskFailed(upl[u].task)) =>
         /\ IssuedDeletes(u) = ExpectedDeletes(u, chunksPerFile)
         /\ upl[u].removed \in {"ok", "err"}
         /\ upl[u].status = 500
         /\ upl[u].resp \in {"write", "upsert file"}
         /\ upl[u].resp = upl[u].err

\* an upload was cleaned up although every Delete and the RemoveFile failed
C7_Witness ==
  \E u \in UploadIds :
    /\ upl[u].pc = "done"
    /\ SomeTaskFailed(upl[u].task)
    /\ Len(upl[u].deletes) = chunksPerFile
    /\ \A i \in 1..chunksPerFile : ~upl[u].deletes[i][3]
    /\ upl[u].removed = "err"

\* C8: after a failed upload whose cleanup RemoveFile succeeded, and as
\* long as no other upload has committed the same name since, File(name)
\* returns NotFound: the store has no row for the name.
C8_RemovedAfterFailure ==
  \A u \in UploadIds :
    (upl[u].pc = "done" /\ upl[u].removed = "ok" /\ ~upl[u].otherAdd) =>
      /\ upl[u].name \notin DOMAIN files
      /\ \A r \in chunkRows : r.file # upl[u].name

\* a write failed, the AddFile of the same upload committed, and cleanup
\* removed the file
C8_Witness ==
  \E u \in UploadIds :
    /\ upl[u].pc = "done"
    /\ upl[u].removed = "ok"
    /\ ~upl[u].otherAdd
    /\ upl[u].task[chunksPerFile + 1] = "ok"
    /\ upl[u].err = "write"
    /\ upl[u].name \notin DOMAIN files

\* C9: a download reads the chunks of a file strictly in ascending index
\* order, one at a time: the k-th read of a download is of chunk k - 1.
C9_ReadsInIndexOrder ==
  \A d \in DownloadIds :
    \A i \in 1..Len(dl[d].reads) : dl[d].reads[i] = i - 1

\* C10: File(name) returns the chunks ordered by index ascending.
C10_FileOrderedByIndex ==
  \A d \in DownloadIds :
    \A i, j \in 1..Len(dl[d].chunks) :
      i < j => dl[d].chunks[i].Index < dl[d].chunks[j].Index

\* C11: after AddFile(f), File(f.name) returns a File equal to f: the size
\* of f and exactly the chunks of f, whatever the store held before.
C11_AddFileThenFile ==
  (fnPc = "store" /\ fnIn.op = "AddFile") =>
    \A r \in FileResult(files, chunkRows, fnIn.arg.Name) :
      /\ r.err = ""
      /\ r.file.Name = fnIn.arg.Name
      /\ r.file.Size = fnIn.arg.Size
      /\ Len(r.file.Chunks) = Len(fnIn.arg.Chunks)
      /\ Range(r.file.Chunks) = Range(fnIn.arg.Chunks)

\* what the callers of the store can observe of a store content s: the
\* results of Nodes, of NodeStats and of File for every name
Observe(s) ==
  [nodes |-> s.nodes,
   stats |-> NodeStats(s.nodes, s.chunkRows),
   file |-> [name \in StoreNames |-> FileResult(s.files, s.chunkRows, name)]]

\* C12: AddNode and AddFile are idempotent: when the call is the same as
\* the call before it, the observable state of the store is the one the
\* first of the two calls left.
C12_Idempotent ==
  (fnPc = "store" /\ fnIn.op \in {"AddNode", "AddFile"} /\ fnIn.repeat) =>
    Observe(Snapshot) = Observe(fnOut)

\* an AddFile was repeated on a name that also holds a chunk row of an
\* earlier file
C12_Witness ==
  /\ fnPc = "store"
  /\ fnIn.op = "AddFile"
  /\ fnIn.repeat
  /\ \E r \in chunkRows :
       r.file = fnIn.arg.Name /\ r.id \notin ChunkIds(fnIn.arg.Chunks)

\* C13: RemoveFile(name) succeeds whether or not the file exists; after it
\* File(name) returns the file-not-found error, no chunk row of the name
\* remains, the node statistics are those of the chunk rows of the other
\* names, and the files of the other names are as they were.
C13_RemoveFile ==
  (fnPc = "store" /\ fnIn.op = "RemoveFile") =>
    LET name == fnIn.arg
    IN  /\ FileResult(files, chunkRows, name) =
             {[err |-> "file not found", file |-> <<>>]}
        /\ \A r \in chunkRows : r.file # name
        /\ NodeStats(nodes, chunkRows) =
             NodeStats(fnOut.nodes, {r \in fnOut.chunkRows : r.file # name})
        /\ nodes = fnOut.nodes
        /\ \A other \in StoreNames \ {name} :
             /\ FileResult(files, chunkRows, other) =
                  FileResult(fnOut.files, fnOut.chunkRows, other)
             /\ {r \in chunkRows : r.file = other} =
                  {r \in fnOut.chunkRows : r.file = other}

\* a file was removed while a file of another name was stored, and the
\* same RemoveFile was then called again on the absent file
C13_Witness ==
  /\ fnPc = "store"
  /\ fnIn.op = "RemoveFile"
  /\ fnIn.repeat
  /\ fnIn.arg \notin DOMAIN fnOut.files
  /\ \E other \in StoreNames \ {fnIn.arg} :
       FileResult(files, chunkRows, other) #
         {[err |-> "file not found", file |-> <<>>]}

\* C14: a File(name) lookup that runs while AddFile and RemoveFile are
\* called never returns the file row of one AddFile with the chunk rows of
\* another: when the chunks returned are the chunks of a File handed to
\* AddFile, the size returned is the size of that File.
C14_NoMixedResult ==
  \A d \in DownloadIds :
    dl[d].pc = "read" =>
      \A f \in StoreFiles :
        (f.Name = dl[d].name /\ Range(dl[d].chunks) = Range(f.Chunks))
          => dl[d].size = f.Size

RECURSIVE SumRowSizes(_)
SumRowSizes(S) ==
  IF S = {} THEN 0
  ELSE LET r == CHOOSE x \in S : TRUE IN r.size + SumRowSizes(S \ {r})

\* C15: every result of NodeStats has exactly one entry for every
\* registered node, with the number and the total size of the chunk rows
\* assigned to the node (0 and 0 for a node without chunks), and is sorted
\* by total size ascending.
C15_NodeStats ==
  \A st \in NodeStats(nodes, chunkRows) :
    /\ \A b \in nodes :
         /\ Cardinality({i \in 1..Len(st) : st[i].BaseURL = b}) = 1
         /\ \A i \in 1..Len(st) :
              st[i].BaseURL = b =>
                /\ st[i].TotalChunks = Cardinality({r \in chunkRows : r.node = b})
                /\ st[i].TotalSize = SumRowSizes({r \in chunkRows : r.node = b})
    /\ \A i, j \in 1..Len(st) : i < j => st[i].TotalSize <= st[j].TotalSize

\* two nodes are registered; one hosts chunks of two files, the other
\* hosts nothing
C15_Witness ==
  /\ fnPc = "store"
  /\ Cardinality(nodes) >= 2
  /\ \E b \in nodes : \A r \in chunkRows : r.node # b
  /\ \E b \in nodes :
       Cardinality({r.file : r \in {x \in chunkRows : x.node = b}}) >= 2

\* both uploads of the pair started their tasks and were answered
PairDone ==
  \A u \in PairIds : upl[u].pc = "done" /\ upl[u].task # <<>>

\* the total size of the chunks the uploads of the pair placed on node b
RECURSIVE PlacedSize(_, _)
PlacedSize(b, todo) ==
  IF todo = {} THEN 0
  ELSE LET t == CHOOSE x \in todo : TRUE
           c == upl[t[1]].chunks[t[2]]
       IN  (IF c.NodeBaseURL = b THEN c.Size ELSE 0) + PlacedSize(b, todo \ {t})

PairSucceeded == \A u \in PairIds : upl[u].status = 200

PairStatsAreSums ==
  \A st \in NodeStats(nodes, chunkRows) :
    /\ {st[i].BaseURL : i \in 1..Len(st)} = nodes
    /\ \A i \in 1..Len(st) :
         st[i].TotalSize = PlacedSize(st[i].BaseURL, PairIds \X (1..chunksPerFile))

PairBytesRetrieved ==
  \A d \in DownloadIds, u \in PairIds :
    Downloaded(d, u) => dl[d].body = upl[u].data

\* C16: two uploads of different names that overlap in time and whose
\* tasks all succeed are both answered with success; afterwards NodeStats
\* reports for every node the sum of the chunk sizes of both files placed
\* on it, and a download of either name returns the bytes of that file.
C16_ConcurrentUploads ==
  PairDone => (PairSucceeded /\ PairStatsAreSums /\ PairBytesRetrieved)

\* the original wording of C17 for a repeated registration: registering
\* again a base URL that was registered with success leaves the set of
\* nodes and the key set of the client registry unchanged
C17_RegisterAgainUnchanged ==
  (regReq.status = 200 /\ regReq.again) =>
    /\ regReq.nodesAfter = regReq.nodesBefore
    /\ regReq.keysAfter = regReq.keysBefore

\* C17: a registration of u answered with success leaves u in table nodes
\* and a client for u in the registry, and adds to the registry the stored
\* nodes only; when u had been registered with success before, the set of
\* nodes is unchanged, and the key set of the registry is unchanged provided
\* every stored node already had a client; a registration whose AddNode
\* fails is answered with 500 and changes neither the nodes nor the registry.
C17_Register ==
  /\ regReq.status = 200 =>
       /\ regReq.url \in nodes
       /\ regReq.url \in DOMAIN clients
       /\ regReq.nodesAfter = regReq.nodesBefore \cup {regReq.url}
       /\ regReq.keysAfter = regReq.keysBefore \cup regReq.nodesAfter
       /\ regReq.again =>
            /\ regReq.nodesAfter = regReq.nodesBefore
            /\ regReq.nodesBefore \subseteq regReq.keysBefore =>
                 regReq.keysAfter = regReq.keysBefore
  /\ regReq.err = "upsert node" =>
       /\ regReq.status = 500
       /\ regReq.nodesAfter = regReq.nodesBefore
       /\ regReq.keysAfter = regReq.keysBefore

\* after one call had failed, a base URL was registered again, with
\* success, while it was the only stored node and had a client
C17_Witness ==
  /\ regReq.status = 200
  /\ regReq.again
  /\ regReq.nodesBefore \subseteq regReq.keysBefore
  /\ regReq.nodesBefore = {regReq.url}
  /\ faults = 1

\* C18: reading a LimitReaderFrom{R, N, Offset} with Offset + N <= len(R)
\* to end-of-stream, with buffers of any positive sizes, yields exactly the
\* bytes R[Offset : Offset+N]: every read without an error returns at least
\* one byte, the bytes collected are always a prefix of that range, they are
\* the whole range once end-of-stream was reported, and every further read
\* returns no byte and end-of-stream.
C18_LimitReader ==
  fnPc = "read" =>
    /\ Len(fnOut.got) <= fnIn.N
    /\ fnOut.got = SubSeq(fnIn.R, fnIn.Offset + 1, fnIn.Offset + Len(fnOut.got))
    /\ (fnOut.reads > 0 /\ fnOut.err = "") => fnOut.n >= 1
    /\ fnOut.err \in {"", "EOF"}
    /\ fnOut.eofs >= 1 =>
         /\ Len(fnOut.got) = fnIn.N
         /\ fnOut.got = SubSeq(fnIn.R, fnIn.Offset + 1, fnIn.Offset + fnIn.N)
    /\ fnOut.eofs >= 2 => (fnOut.n = 0 /\ fnOut.err = "EOF")

\* three bytes from the middle of the source were read with two reads of
\* different sizes, and two more reads reported end-of-stream
C18_Witness ==
  /\ fnPc = "read"
  /\ fnIn.N = 3
  /\ fnIn.Offset = 1
  /\ Len(fnIn.R) = 5
  /\ fnOut.reads = 4
  /\ fnOut.eofs = 2
  /\ fnOut.got = SubSeq(fnIn.R, 2, 4)

\* C19: on a storage node, Read(id) returns exactly the bytes of the last
\* successful Write(id), whatever was written for other identifiers since;
\* Read of an identifier that was never written, or whose last call was a
\* Delete, returns an error and writes nothing to the sink.
C19_ReadAfterWrite ==
  (fnPc = "node" /\ fnIn.op = "Read") =>
    IF fnIn.id \in DOMAIN fnOut.written
      THEN fnOut.err = "" /\ fnOut.sink = fnOut.written[fnIn.id]
      ELSE fnOut.err # "" /\ fnOut.sink = <<>>

\* a chunk was read back while another chunk of the same directories holds
\* other bytes
C19_Witness ==
  /\ fnPc = "node"
  /\ fnIn.op = "Read"
  /\ fnIn.id \in DOMAIN fnOut.written
  /\ fnOut.sink # <<>>
  /\ \E other \in DOMAIN fnOut.written :
       /\ other # fnIn.id
       /\ other[1] = fnIn.id[1] /\ other[2] = fnIn.id[2]
       /\ fnOut.written[other] # fnOut.sink

\* C20: Delete(id) succeeds whether or not the chunk exists; after it the
\* chunk is absent and every other chunk reads as before.
C20_DeleteIdempotent ==
  (fnPc = "node" /\ fnIn.op = "Delete") =>
    /\ fnOut.err = ""
    /\ ChunksRead(blobs, 1, fnIn.id).err # ""
    /\ \A other \in NodeChunkIds \ {fnIn.id} :
         ChunksRead(blobs, 1, other) = ChunksRead(fnOut.before, 1, other)

\* an absent chunk was deleted while another chunk was stored
C20_Witness ==
  /\ fnPc = "node"
  /\ fnIn.op = "Delete"
  /\ ChunksRead(fnOut.before, 1, fnIn.id).err # ""
  /\ \E other \in NodeChunkIds \ {fnIn.id} : ChunksRead(blobs, 1, other).err = ""

\* C21: on the HTTP surface of a storage node, DELETE /chunks/<id> for a
\* valid identifier is answered with 200 whether or not the chunk exists,
\* and the chunk is absent afterwards, so node.Client.Delete returns no
\* error.
C21_DeleteReturns200 ==
  (fnPc = "http" /\ fnIn.method = "DELETE" /\ fnIn.id \in NodeChunkIds) =>
    /\ fnOut.status = 200
    /\ fnOut.err = ""
    /\ ChunksRead(blobs, 1, fnIn.id).err # ""

\* C22: a download of a name that has no file row is answered with 500
\* by the metadata lookup itself: it fetches no client, reads no chunk and
\* sends no byte, and nothing more happens for a download answered by its
\* lookup.
C22_DownloadNotFound ==
  [][\A d \in DownloadIds :
       /\ (dl[d].pc = "idle" /\ dl'[d].pc # "idle"
              /\ dl'[d].name \notin DOMAIN files) =>
            /\ dl'[d].pc = "done"
            /\ dl'[d].status = 500
            /\ dl'[d].chunks = <<>>
            /\ dl'[d].reads = <<>>
            /\ dl'[d].body = <<>>
            /\ ~dl'[d].failed
            /\ clients' = clients
            /\ blobs' = blobs
       /\ (dl[d].pc = "done" /\ dl[d].status = 500) => dl'[d] = dl[d]
    ]_vars

\* a download of a name without metadata was answered with 500 while a
\* node was registered and no failure was injected
C22_Witness ==
  \E d \in DownloadIds :
    /\ dl[d].pc = "done"
    /\ dl[d].status = 500
    /\ dl[d].name \in FileNames
    /\ dl[d].name \notin DOMAIN files
    /\ dl[d].body = <<>>
    /\ nodes # {}
    /\ faults = 0

\* C23: the placement of an upload takes the cached statistics as its
\* input: the nodes of the chunks of an upload are a result of
\* selectLeastFilledNodes on the value UpdateNodeStats stored last.
C23_PlacementFromSnapshot ==
  [][\A u \in UploadIds :
       (upl[u].pc = "place" /\ upl'[u].pc = "run") =>
         \E sel \in selectLeastFilledNodes(hStat, chunksPerFile) :
           /\ Len(sel) = chunksPerFile
           /\ \A i \in 1..chunksPerFile :
                upl'[u].chunks[i].NodeBaseURL = sel[i].BaseURL
    ]_vars

ChunkBytes(u, c) ==
  SubSeq(upl[u].data, c.Offset + 1, c.Offset + c.Size)

\* C25: an upload is answered with 200 only after each of its N chunk
\* Writes and its AddFile returned without an error: when the answer is
\* sent every chunk is on its node and the file with its chunks is in the
\* store, and an upload one of whose tasks failed is never answered 200.
C25_SuccessAfterAllTasks ==
  [][\A u \in UploadIds :
       /\ upl'[u].status = 200 =>
            /\ DOMAIN upl'[u].task = 1..(chunksPerFile + 1)
            /\ \A i \in 1..(chunksPerFile + 1) : upl'[u].task[i] = "ok"
            /\ upl'[u].err = ""
            /\ upl'[u].deletes = <<>>
            /\ upl'[u].removed = "none"
       /\ (upl'[u].status = 200 /\ upl[u].status # 200) =>
            /\ upl[u].task = upl'[u].task
            /\ \A i \in 1..chunksPerFile :
                 LET c == upl[u].chunks[i]
                     key == ChunkPath(c.NodeBaseURL, c.ID)
                 IN  key \in DOMAIN blobs /\ blobs[key] = ChunkBytes(u, c)
            /\ upl[u].name \in DOMAIN files
            /\ files[upl[u].name] = Len(upl[u].data)
            /\ {RowChunk(r) : r \in {x \in chunkRows : x.file = upl[u].name}} =
                 Range(upl[u].chunks)
       /\ SomeTaskFailed(upl[u].task) => upl'[u].status # 200
    ]_vars

\* an upload of a file whose size leaves a remainder was answered with 200
\* and its file is in the store
C25_Witness ==
  \E u \in UploadIds :
    /\ upl[u].pc = "done"
    /\ upl[u].status = 200
    /\ Len(upl[u].data) > chunksPerFile
    /\ upl[u].name \in DOMAIN files

\* the error task i of an upload returns when it fails
TaskErr(i) == IF i <= chunksPerFile THEN "write" ELSE "upsert file"

\* C26: in a failed upload the first error a task returns cancels the
\* context of the group, so that the tasks still running can fail on it;
\* that first error is the one the group keeps and the one sent to the
\* client; and the 500 is sent only after cleanup has attempted the N
\* Deletes and the RemoveFile.
C26_FirstErrorReported ==
  [][\A u \in UploadIds :
       /\ upl[u].err # "" => upl'[u].err = upl[u].err
       /\ (upl[u].err = "" /\ upl'[u].err # "") =>
            /\ \E i \in DOMAIN upl[u].task :
                 /\ upl[u].task[i] = "run"
                 /\ upl'[u].task[i] = "err"
                 /\ upl'[u].err = TaskErr(i)
                 /\ \A j \in DOMAIN upl[u].task \ {i} :
                      upl'[u].task[j] = upl[u].task[j]
            /\ ~SomeTaskFailed(upl[u].task)
            /\ Cancelled(upl'[u], "group")
       /\ (upl[u].err # "" /\ upl'[u].task # upl[u].task) =>
            /\ Cancelled(upl[u], "group")
            /\ faults' = faults
       /\ (upl[u].pc # "done" /\ upl'[u].pc = "done"
              /\ SomeTaskFailed(upl[u].task)) =>
            /\ upl[u].pc = "cleanup"
            /\ upl'[u].status = 500
            /\ upl'[u].resp = upl[u].err
            /\ Len(upl'[u].deletes) = chunksPerFile
            /\ upl'[u].removed \in {"ok", "err"}
    ]_vars

\* a Write failed first, the AddFile failed after it on the cancelled
\* context while another Write succeeded, and the client got the error of
\* the Write after the N Deletes and the RemoveFile
C26_Witness ==
  \E u \in UploadIds :
    /\ upl[u].pc = "done"
    /\ upl[u].status = 500
    /\ upl[u].resp = "write"
    /\ upl[u].task[chunksPerFile + 1] = "err"
    /\ \E i \in 1..chunksPerFile : upl[u].task[i] = "ok"
    /\ Len(upl[u].deletes) = chunksPerFile
    /\ upl[u].removed = "ok"

\* C27: the cleanup of a failed upload issues its calls under a context
\* that is cancelled neither by the client going away nor by the failure
\* of the group: for an upload that fails because its client went away,
\* every one of the N Deletes and the RemoveFile are issued, and a
\* RemoveFile that succeeds leaves no metadata of the upload.
C27_CleanupContext ==
  \A u \in UploadIds :
    /\ upl[u].pc = "cleanup" => ~Cancelled(upl[u], upl[u].cleanupCtx)
    /\ (upl[u].pc = "done" /\ upl[u].err # "") =>
         /\ ~Cancelled(upl[u], upl[u].cleanupCtx)
         /\ IssuedDeletes(u) = ExpectedDeletes(u, chunksPerFile)
         /\ upl[u].removed \in {"ok", "err"}
         /\ upl[u].status = 500
    /\ (upl[u].pc = "done" /\ upl[u].err # "" /\ upl[u].removed = "ok"
          /\ ~upl[u].otherAdd) =>
         upl[u].name \notin DOMAIN files

\* the client went away while the tasks ran and no other failure was
\* injected; the AddFile had committed and a Write failed on the cancelled
\* context; cleanup issued the N Deletes, and its RemoveFile succeeded
C27_Witness ==
  \E u \in UploadIds :
    /\ upl[u].pc = "done"
    /\ upl[u].cancelled
    /\ faults = 1
    /\ upl[u].err = "write"
    /\ upl[u].task[chunksPerFile + 1] = "ok"
    /\ Len(upl[u].deletes) = chunksPerFile
    /\ upl[u].removed = "ok"
    /\ upl[u].name \notin DOMAIN files

\* the files of the chunks of upload u on their nodes
ChunkKeys(u) ==
  {ChunkPath(upl[u].chunks[i].NodeBaseURL, upl[u].chunks[i].ID) :
     i \in DOMAIN upl[u].chunks}

\* C28: cleanup starts only after each of the N+1 tasks of the upload has
\* returned: from the start of cleanup on, no task of the upload changes,
\* no chunk of the upload is written to a node, and no chunk row of the
\* upload is added to the store, so neither a chunk nor the metadata of a
\* failed upload reappears after cleanup removed it.
C28_NoEffectAfterCleanup ==
  [][\A u \in UploadIds :
       upl[u].pc \in {"cleanup", "done"} =>
         /\ AllTasksReturned(upl[u].task)
         /\ upl'[u].task = upl[u].task
         /\ upl'[u].chunks = upl[u].chunks
         /\ (ChunkKeys(u) \cap DOMAIN blobs') \subseteq DOMAIN blobs
         /\ {r \in chunkRows' : r.id \in ChunkIds(upl[u].chunks)}
              \subseteq chunkRows
    ]_vars

\* one Write of an upload failed while its other Writes and its AddFile
\* took effect; cleanup issued its Deletes and removed the file, and no
\* chunk row of the upload is left
C28_Witness ==
  \E u \in UploadIds :
    /\ upl[u].pc = "done"
    /\ upl[u].err = "write"
    /\ Cardinality({i \in 1..(chunksPerFile + 1) : upl[u].task[i] = "ok"})
         = chunksPerFile
    /\ Len(upl[u].deletes) = chunksPerFile
    /\ upl[u].removed = "ok"
    /\ \A r \in chunkRows : r.id \notin ChunkIds(upl[u].chunks)

C30_MetadataBeforeBlobs ==
  /\ \A r \in chunkRows :
       ChunkPath(r.node, r.id) \notin DOMAIN blobs =>
         \E u \in UploadIds :
           /\ upl[u].pc = "run"
           /\ upl[u].task[chunksPerFile + 1] = "ok"
           /\ \E i \in 1..chunksPerFile :
                upl[u].chunks[i].ID = r.id /\ upl[u].task[i] = "run"
  /\ \A d \in DownloadIds :
       dl[d].failed =>
         \E u \in UploadIds :
           /\ ChunkIds(dl[d].chunks) = ChunkIds(upl[u].chunks)
           /\ u \notin dl[d].after

\* a download looked a file up after its AddFile and before its last
\* Write, sent part of the file and then failed at a chunk that was not
\* written yet; the upload was answered with 200 afterwards
C30_Witness ==
  \E d \in DownloadIds, u \in UploadIds :
    /\ dl[d].failed
    /\ dl[d].status = 200
    /\ Len(dl[d].body) > 0
    /\ Len(dl[d].body) < dl[d].size
    /\ ChunkIds(dl[d].chunks) = ChunkIds(upl[u].chunks)
    /\ u \notin dl[d].after
    /\ upl[u].status = 200

\* C31: once a failed upload has been cleaned up, a blob stored under one
\* of its chunk identifiers is left on a node only where the Delete the
\* cleanup issued for this chunk on this node failed; when all Deletes of
\* the cleanup succeeded no node holds a blob of the upload.
C31_OnlyFailedDeletesRemain ==
  \A u \in UploadIds :
    (upl[u].pc = "done" /\ upl[u].status = 500
       /\ Len(upl[u].deletes) = chunksPerFile) =>
      \A i \in 1..chunksPerFile : \A b \in URLs :
        ChunkPath(b, upl[u].chunks[i].ID) \in DOMAIN blobs =>
          /\ b = upl[u].chunks[i].NodeBaseURL
          /\ upl[u].deletes[i] = <<b, upl[u].chunks[i].ID, FALSE>>

\* one Write of an upload failed after the other Writes had stored their
\* chunks; each Delete of the cleanup succeeded and no node holds a blob
\* of the upload
C31_Witness ==
  \E u \in UploadIds :
    /\ upl[u].pc = "done"
    /\ upl[u].err = "write"
    /\ Cardinality({i \in 1..chunksPerFile : upl[u].task[i] = "ok"})
         = chunksPerFile - 1
    /\ Len(upl[u].deletes) = chunksPerFile
    /\ \A i \in 1..chunksPerFile : upl[u].deletes[i][3]
    /\ ChunkKeys(u) \cap DOMAIN blobs = {}

\* C32: once the context given to NodeStatUpdater is cancelled the updater
\* eventually returns; after it has returned it stays returned and the
\* snapshot is not refreshed any more; it returns only when the context is
\* cancelled.
C32_UpdaterEndsWithContext ==
  /\ [](fnIn.cancelled => <>(fnPc = "exited"))
  /\ [][fnPc = "exited" => (fnPc' = "exited" /\ hStat' = hStat)]_vars
  /\ [](fnPc = "exited" => fnIn.cancelled)

\* the updater has returned after refreshing the snapshot at least once
C32_Witness ==
  /\ fnPc = "exited"
  /\ fnIn.cancelled
  /\ hStat # <<>>

\* C33: a call of UpdateNodeStats that fails leaves the updater running and
\* the snapshot as it was; unless the context is cancelled a later tick
\* replaces the snapshot, and what a successful tick stores is a result of
\* NodeStats() on the store of that moment; one updater is started.
C33_UpdaterSurvivesFailure ==
  /\ [](fnOut.last = "err" => <>(fnIn.cancelled \/ fnOut.last = "ok"))
  /\ [][(fnOut.tick /\ ~fnOut'.tick /\ fnOut'.last = "err") =>
          (fnPc' = "updater" /\ hStat' = hStat)]_vars
  /\ [][(fnOut.tick /\ ~fnOut'.tick /\ fnOut'.last = "ok") =>
          (hStat' \in NodeStats(nodes, chunkRows) /\ ~fnIn.cancelled)]_vars
  /\ [](fnOut.updaters = 1)

\* a call of UpdateNodeStats failed while the context was live, and a
\* later tick stored the statistics of the nodes registered meanwhile
C33_Witness ==
  /\ faults > 0
  /\ fnOut.last = "ok"
  /\ fnPc = "updater"
  /\ ~fnIn.cancelled
  /\ nodes # {}
  /\ hStat \in NodeStats(nodes, chunkRows)

\* the statements a call runs between Lock() and Unlock(): map and slice
\* assignments and the client constructor
MuxLocalPcs == {"check", "make", "store", "unlock"}

\* C34: the task that holds the registry mutex is at a statement between
\* Lock() and Unlock(), none of which is a call of the metadata store or
\* of a node client or takes a lock, and only the holder is at such a
\* statement; a store call is made by a task that does not hold the
\* mutex; every holder releases the mutex, and every call that waits for
\* it gets it and returns.
C34_LeafLock ==
  /\ [](\A p \in MuxProcs :
          /\ fnOut.holder = p => fnIn[p].pc \in MuxLocalPcs
          /\ fnIn[p].pc \in MuxLocalPcs => fnOut.holder = p
          /\ fnIn[p].pc = "call" => fnOut.holder # p)
  /\ [][\A p \in MuxProcs :
          (fnIn[p].pc = "call" /\ fnIn'[p].pc # "call") =>
            (fnOut.holder # p /\ fnOut' = fnOut)]_vars
  /\ [](fnOut.holder # 0 => <>(fnOut.holder = 0))
  /\ \A p \in MuxProcs : [](fnIn[p].pc = "lock" => <>(fnIn[p].pc = "done"))

\* a FetchNodes holds the mutex while a GetClient and no other call waits
\* in Lock()
C34_Witness ==
  \E p, q \in MuxProcs :
    /\ fnOut.holder = p
    /\ fnIn[p].op = "FetchNodes"
    /\ fnIn[p].pc = "store"
    /\ fnIn[p].list # {}
    /\ fnIn[q].op = "GetClient"
    /\ fnIn[q].pc = "lock"

\* C35: GetClient(u) returns the entry the registry holds for u when there
\* is one and leaves the registry alone; otherwise it builds a client,
\* stores it under u and returns it.  GetClient builds at most one client
\* for u, whatever the interleaving, and two calls of GetClient(u) return
\* the same client as long as no FetchNodes has overwritten the entry.
C35_GetClientIdempotent ==
  /\ [](\A b \in URLs : fnOut.made[b] <= 1)
  /\ [](\A p \in MuxProcs : fnIn[p].pc = "make" => fnIn[p].arg \notin DOMAIN clients)
  /\ [][\A p \in MuxProcs :
          /\ (fnIn[p].pc = "check" /\ fnIn'[p].pc = "unlock") =>
               /\ fnIn[p].arg \in DOMAIN clients
               /\ fnIn'[p].res = fnOut.ident[fnIn[p].arg]
               /\ clients' = clients
               /\ fnOut' = fnOut
          /\ (fnIn[p].pc = "make" /\ fnIn'[p].pc = "unlock") =>
               /\ fnIn[p].arg \in DOMAIN clients'
               /\ clients'[fnIn[p].arg] = NewClient(fnIn[p].arg)
               /\ fnIn'[p].res = fnOut'.ident[fnIn[p].arg]
               /\ fnOut'.ident[fnIn[p].arg] # fnOut.ident[fnIn[p].arg]
               /\ \A k \in DOMAIN clients : clients'[k] = clients[k]]_vars
  /\ [](\A p, q \in MuxProcs :
          (/\ fnIn[p].op = "GetClient" /\ fnIn[q].op = "GetClient"
           /\ fnIn[p].arg = fnIn[q].arg
           /\ fnIn[p].pc \in {"unlock", "done"}
           /\ fnIn[q].pc \in {"unlock", "done"}
           /\ fnIn[p].arg \notin fnOut.replaced) =>
            fnIn[p].res = fnIn[q].res)

\* two calls of GetClient for the same base URL have returned, the first
\* built the client and the other returned the same one
C35_Witness ==
  \E p, q \in MuxProcs :
    /\ p # q
    /\ fnIn[p].op = "GetClient" /\ fnIn[q].op = "GetClient"
    /\ fnIn[p].arg = fnIn[q].arg
    /\ fnIn[p].pc = "done" /\ fnIn[q].pc = "done"
    /\ fnIn[p].res = <<"GetClient", p>>
    /\ fnIn[q].res = <<"GetClient", p>>
    /\ fnOut.made[fnIn[p].arg] = 1

\* C36: the keys of the registry only grow; when FetchNodes returns nil
\* the registry has an entry for every base URL its Nodes() call listed; a
\* FetchNodes whose Nodes() call fails returns without a change of the
\* registry.
C36_RegistryOnlyGrows ==
  /\ [][DOMAIN clients \subseteq DOMAIN clients']_vars
  /\ [](\A p \in MuxProcs :
          (fnIn[p].op = "FetchNodes" /\ fnIn[p].pc = "unlock") =>
            fnIn[p].list \subseteq DOMAIN clients)
  /\ [][\A p \in MuxProcs :
          (fnIn[p].op = "FetchNodes" /\ fnIn[p].pc = "call"
             /\ fnIn'[p].pc = "done") =>
            (fnIn'[p].res = "err" /\ clients' = clients)]_vars

\* FetchNodes is about to return nil for a list of nodes while the
\* registry holds a client, built by GetClient, for a base URL not on the
\* list
C36_Witness ==
  \E p \in MuxProcs :
    /\ fnIn[p].op = "FetchNodes"
    /\ fnIn[p].pc = "unlock"
    /\ fnIn[p].list # {}
    /\ \E b \in DOMAIN clients : b \notin fnIn[p].list /\ fnOut.made[b] = 1

\* the chunks of upload u are on their nodes, each with its bytes of the
\* file u uploaded
ChunksOnNodes(u) ==
  \A i \in DOMAIN upl[u].chunks :
    LET c == upl[u].chunks[i]
    IN  /\ ChunkPath(c.NodeBaseURL, c.ID) \in DOMAIN blobs
        /\ blobs[ChunkPath(c.NodeBaseURL, c.ID)] = ChunkBytes(u, c)

\* every result File(name) can give is the file of upload u: its size and
\* exactly its chunks
FileIsOf(name, u) ==
  \A r \in FileResult(files, chunkRows, name) :
    /\ r.err = ""
    /\ r.file.Size = Len(upl[u].data)
    /\ Len(r.file.Chunks) = Len(upl[u].chunks)
    /\ Range(r.file.Chunks) = Range(upl[u].chunks)

\* C37: when two overlapping uploads of one name have both been answered
\* with success, File(name) is the file of one of them, with the size and
\* all the chunks of this upload and no chunk of the other; the chunks of
\* the other upload are on their nodes and no chunk row refers to them.
C37_SameNameOneWins ==
  (\A u \in PairIds : upl[u].pc = "done" /\ upl[u].status = 200
                        /\ upl[u].name = SameName) =>
    \E u \in PairIds : \A v \in PairIds \ {u} :
      /\ FileIsOf(SameName, u)
      /\ ChunksOnNodes(u)
      /\ ChunksOnNodes(v)
      /\ \A r \in chunkRows : r.id \notin ChunkIds(upl[v].chunks)

\* both uploads are answered with success, they differ in size, File(name)
\* returns the file of upload 1, and the chunks of both are on their nodes
C37_Witness ==
  /\ \A u \in PairIds : upl[u].pc = "done" /\ upl[u].status = 200
  /\ Len(upl[1].data) # Len(upl[2].data)
  /\ FileIsOf(SameName, 1)
  /\ \A u \in PairIds : Cardinality(ChunkKeys(u) \cap DOMAIN blobs) = chunksPerFile

\* C38: once a failed upload has been cleaned up, the file of every other
\* upload that was answered with success is still what File returns for
\* its name, and its chunks are on their nodes with their bytes, also when
\* the failed upload had the same name.
C38_CleanupKeepsOtherFiles ==
  \A u, v \in PairIds :
    (/\ u # v
     /\ upl[u].pc = "done" /\ upl[u].status = 200
     /\ upl[v].pc = "done" /\ upl[v].status = 500 /\ upl[v].removed # "none") =>
      /\ FileIsOf(upl[u].name, u)
      /\ ChunksOnNodes(u)

\* the same for a failed upload of another name
C38_OtherNamesKept ==
  \A u, v \in PairIds :
    (/\ u # v
     /\ upl[u].name # upl[v].name
     /\ upl[u].pc = "done" /\ upl[u].status = 200
     /\ upl[v].pc = "done" /\ upl[v].status = 500 /\ upl[v].removed # "none") =>
      /\ FileIsOf(upl[u].name, u)
      /\ ChunksOnNodes(u)

\* C39: the chunks of an upload answered with success are on their nodes:
\* for each chunk the node of the chunk holds, under the identifier of the
\* chunk, the bytes [offset, offset + size) of the uploaded file, whatever
\* a later upload, its cleanup or a registration does.
C39_StoredChunksStay ==
  \A u \in PairIds : (upl[u].pc = "done" /\ upl[u].status = 200) => ChunksOnNodes(u)

\* the first upload was answered with success; a second upload of the same
\* name stored some chunks, failed and was cleaned up with Deletes that
\* succeeded, and the chunks of the first upload are on their nodes
C39_Witness ==
  /\ upl[1].pc = "done" /\ upl[1].status = 200
  /\ upl[2].pc = "done" /\ upl[2].status = 500
  /\ upl[2].name = upl[1].name
  /\ \E i \in 1..chunksPerFile : upl[2].task[i] = "ok"
  /\ Len(upl[2].deletes) = chunksPerFile
  /\ \A i \in 1..chunksPerFile : upl[2].deletes[i][3]
  /\ ChunksOnNodes(1)
  /\ ChunkKeys(2) \cap DOMAIN blobs = {}

\* the bytes [Offset, Offset + Size) of the source, for chunk c
SourceRange(R, c) == SubSeq(R, c.Offset + 1, c.Offset + c.Size)

\* C40: however the Reads of the N tasks interleave, what task i has sent
\* is a prefix of the bytes [offset_i, offset_i + size_i) of the source,
\* and all of them once its reader has reported the end; a Read of one
\* task leaves the readers and the bytes of the other tasks as they were.
C40_UploadersIndependent ==
  /\ [](fnPc = "send" =>
          \A i \in 1..chunksPerFile :
            /\ Len(fnOut.sent[i]) <= fnIn.chunks[i].Size
            /\ fnOut.sent[i] =
                 SubSeq(SourceRange(fnIn.R, fnIn.chunks[i]), 1, Len(fnOut.sent[i]))
            /\ fnOut.done[i] => fnOut.sent[i] = SourceRange(fnIn.R, fnIn.chunks[i]))
  /\ [][fnPc = "send" =>
          \A i, j \in 1..chunksPerFile :
            (i # j /\ fnOut'.sent[i] # fnOut.sent[i]) =>
              /\ fnOut'.l[j] = fnOut.l[j]
              /\ fnOut'.sent[j] = fnOut.sent[j]
              /\ fnOut'.done[j] = fnOut.done[j]]_vars

\* the tasks of the longest source have all finished, each has sent the
\* bytes of its chunk, and one of them needed more than one Read
C40_Witness ==
  /\ fnPc = "send"
  /\ Len(fnIn.R) = MaxSendLen
  /\ \A i \in 1..chunksPerFile :
       /\ fnOut.done[i]
       /\ fnOut.sent[i] = SourceRange(fnIn.R, fnIn.chunks[i])
  /\ \E i \in 1..chunksPerFile : Len(fnOut.sent[i]) > ReadBuf

====
